---------------------------- MODULE Spec2Model ----------------------------
(***************************************************************************)
(* A model of the Raster software rasterizer (infosia/Raster):             *)
(*   - Image / Color            (include/renderer/scene.h, scene.cpp)      *)
(*   - the rasterizer, the render queues, the compositor and the           *)
(*     post-processing steps    (src/renderer/render.cpp)                  *)
(*   - the stock shaders        (include/shaders/shader.h)                 *)
(*   - the scene-transform updater (src/renderer/loader.cpp)               *)
(*                                                                         *)
(* Conventions.                                                            *)
(*   Screen coordinates are kept in half-pixel units (the integer c stands *)
(*   for the float c/2), so that the float -> int truncations of the code  *)
(*   (isInTriangle, bb) are modelled and not the identity.                 *)
(*   Depths are exact rationals <<n, d>> (d > 0, lowest terms).  The value *)
(*   std::numeric_limits<float>::min(), the smallest POSITIVE normalized   *)
(*   float, is the special value FltMin: it is greater than every depth    *)
(*   <= 0 and smaller than every positive depth of the model.              *)
(*   A Color is the 4-tuple <<R, G, B, A>> of bytes; an Image's buffer is  *)
(*   the flat byte sequence the code keeps (1-based here).                 *)
(*   Float products that the code truncates into a byte are computed       *)
(*   exactly and floored.                                                  *)
(***************************************************************************)
EXTENDS Integers, Sequences, FiniteSets, TLC

(***************************************************************************)
(* Bounds of the model                                                     *)
(***************************************************************************)
\* the scene of the rendering specification holds at most MaxPrims primitives
MaxPrims == 2
\* the largest value of RenderOptions::ssaaKernelSize that is explored
MaxKernel == 2

(***************************************************************************)
(* Program constants                                                       *)
(***************************************************************************)
GRAYSCALE == 1
GRAYSCALE_ALPHA == 2
RGB == 3
RGBA == 4

Formats == {GRAYSCALE, GRAYSCALE_ALPHA, RGB, RGBA}

Byte == 0..255

(***************************************************************************)
(* Small arithmetic helpers                                                *)
(***************************************************************************)
Abs(x) == IF x < 0 THEN -x ELSE x

Min2(a, b) == IF a < b THEN a ELSE b

Max2(a, b) == IF a > b THEN a ELSE b

RECURSIVE GCD(_, _)
GCD(a, b) == IF b = 0 THEN a ELSE GCD(b, a % b)

\* the rational n/d (d # 0) in lowest terms with a positive denominator
Rat(n, d) ==
    LET s == IF d < 0 THEN -1 ELSE 1
        g == GCD(Abs(n), Abs(d))
    IN  << (s * n) \div g, (s * d) \div g >>

\* float -> int conversion of a coordinate in half-pixel units: truncation
\* toward zero
ToInt(c) == IF c >= 0 THEN c \div 2 ELSE -((-c) \div 2)

\* std::numeric_limits<float>::min(): the smallest positive normalized float
FltMin == << 1, 0 >>

\* a < b on depth values (rationals and FltMin)
DepthLess(a, b) ==
    IF a = b THEN FALSE
    ELSE IF a = FltMin THEN b[1] > 0
    ELSE IF b = FltMin THEN a[1] <= 0
    ELSE a[1] * b[2] < b[1] * a[2]

(***************************************************************************)
(* Color (scene.h)                                                         *)
(***************************************************************************)
\* Color::Color(): rgba{0, 0, 0, 255}
DefaultColor == << 0, 0, 0, 255 >>

\* Color::Color(const uint8_t *p, Format bpp): the member initializer
\* {0,0,0,255} stays where the constructor does not write
ColorFromBytes(p, bpp) ==
    IF bpp = GRAYSCALE THEN << p[1], 0, 0, 255 >>
    ELSE IF bpp = GRAYSCALE_ALPHA THEN << p[1], p[1], p[1], p[2] >>
    ELSE IF bpp = RGB THEN << p[1], p[2], p[3], 255 >>
    ELSE << p[1], p[2], p[3], p[4] >>

\* Color::operator*(float intensity) with intensity = num/255: the factor is
\* clamped to [0, 1] and each product truncated into the byte
ColorScale(c, num) ==
    LET k == Max2(0, Min2(num, 255))
    IN  [i \in 1..4 |-> (c[i] * k) \div 255]

\* Color::operator*(glm::vec4 colors) with colors[i] = f[i]/255
ColorMulVec4(c, f) == [i \in 1..4 |-> (c[i] * f[i]) \div 255]

\* Color::operator+(Color &c): std::min(255, a + b) per channel
ColorAdd(a, b) == [i \in 1..4 |-> Min2(255, a[i] + b[i])]

\* what a build makes of the conversion of a float above 255 to uint8_t,
\* which is undefined: the low byte of the integer part, or 255
ByteOutcomes == {"wrap", "saturate"}

\* Color::operator+(glm::vec4 colors) with colors[i] = f[i]/255: the float sum
\* is stored into a uint8_t with no clamp, and ub is what the build makes of
\* a sum above 255
ColorAddVec4(c, f, ub) ==
    [i \in 1..4 |->
        IF c[i] + f[i] <= 255 THEN c[i] + f[i]
        ELSE IF ub = "saturate" THEN 255 ELSE (c[i] + f[i]) % 256]

\* Color::opaque()
Opaque(c) == [c EXCEPT ![4] = 255]

(***************************************************************************)
(* Image (scene.h, scene.cpp)                                              *)
(***************************************************************************)
\* Image::clear via Image::reset(w, h, f): a zeroed buffer of w*h*f bytes
ImageReset(w, h, f) ==
    [width |-> w, height |-> h, format |-> f,
     data |-> [i \in 1..(w * h * f) |-> 0]]

\* fault variant of Image::clear: the buffer is resized and keeps the bytes
\* it held
ImageClearKept(img) ==
    [img EXCEPT !.data =
        [i \in 1..(img.width * img.height * img.format) |->
            IF i <= Len(img.data) THEN img.data[i] ELSE 0]]

\* Image::clear: data = std::vector<uint8_t>(width * height * format, 0)
ImageClear(img) ==
    [img EXCEPT !.data = [i \in 1..(img.width * img.height * img.format) |-> 0]]

\* img.reset(w, h, f) on an Image that exists: the three members, then clear
ImageResetOf(img, w, h, f) ==
    ImageClear([img EXCEPT !.width = w, !.height = h, !.format = f])

\* Image(): Image() = default
EmptyImage == [width |-> 0, height |-> 0, format |-> RGBA, data |-> << >>]

\* the bytes of pixel number i (i = x + y * width)
PixelBytes(img, i) ==
    SubSeq(img.data, i * img.format + 1, i * img.format + img.format)

\* the buffer in which pixel number i holds the first `format` bytes of px[i]
WithPixels(img, px) ==
    [img EXCEPT !.data =
        [j \in 1..Len(img.data) |->
            px[(j - 1) \div img.format][((j - 1) % img.format) + 1]]]

NumPixels(img) == img.width * img.height

Pixels(img) == 0..(NumPixels(img) - 1)

\* Image::get
ImageGet(img, x, y) ==
    IF Len(img.data) = 0 \/ x < 0 \/ y < 0 \/ x >= img.width \/ y >= img.height
    THEN DefaultColor
    ELSE ColorFromBytes(PixelBytes(img, x + y * img.width), img.format)

\* Image::set
ImageSet(img, x, y, c) ==
    IF Len(img.data) = 0 \/ x < 0 \/ y < 0 \/ x >= img.width \/ y >= img.height
    THEN img
    ELSE [img EXCEPT !.data =
            [j \in 1..Len(img.data) |->
                IF (j - 1) \div img.format = x + y * img.width
                THEN c[((j - 1) % img.format) + 1]
                ELSE img.data[j]]]

\* fault variant of Image::fill: the skip test is inverted, so that painted
\* pixels are overwritten and transparent ones are left
ImageFillInverted(img, color) ==
    WithPixels(img,
        [i \in Pixels(img) |->
            IF img.format = RGBA /\ PixelBytes(img, i)[4] = 0
            THEN PixelBytes(img, i)
            ELSE SubSeq(color, 1, img.format)])

\* Image::fill: a pixel is skipped only when the format is RGBA and its alpha
\* byte is not zero
ImageFill(img, color) ==
    WithPixels(img,
        [i \in Pixels(img) |->
            IF img.format = RGBA /\ PixelBytes(img, i)[4] # 0
            THEN PixelBytes(img, i)
            ELSE SubSeq(color, 1, img.format)])

\* Image::copy: memcpy of width * height * format bytes of this image (the
\* sizes and formats agree: the assert of the code)
ImageCopy(img, src) ==
    [img EXCEPT !.data = [j \in 1..(img.width * img.height * img.format) |-> src.data[j]]]

(***************************************************************************)
(* Scene data read by the shaders (scene.h)                                *)
(*                                                                         *)
(* A primitive of the model is one triangle, given by the screen-space     *)
(* positions <<x, y>> (half-pixel units) and depths that Shader::vertex    *)
(* returns for its three vertices.  A texture is sampled at one texel per  *)
(* primitive.  Factors in [0, 1] are kept as numerators over 255.          *)
(***************************************************************************)
\* Primitive::material == nullptr
NoMaterial ==
    [isNull |-> TRUE, doubleSided |-> FALSE, alphaMode |-> "Opaque",
     alphaCutOff |-> 0, hasTexture |-> FALSE, texHasAlpha |-> FALSE,
     texel |-> << 0, 0, 0, 0 >>, baseColor |-> << 0, 0, 0, 0 >>,
     unlit |-> TRUE, hasVrm0 |-> FALSE, hasOutlineColor |-> FALSE,
     outlineColor |-> << 0, 0, 0, 255 >>, renderQueue |-> 0]

(***************************************************************************)
(* Rasterizer helpers (render.cpp)                                         *)
(***************************************************************************)
\* inBounds
inBounds(x, y, width, height) ==
    (0 <= x /\ x < width) /\ (0 <= y /\ y < height)

\* isInTriangle: the float coordinates are converted to int
isInTriangle(tri, width, height) ==
    \E i \in 1..3 : inBounds(ToInt(tri[i][1]), ToInt(tri[i][2]), width, height)

\* bb: << left, bottom, right, top >>
bb(tri, width, height) ==
    LET left   == ToInt(Min2(tri[1][1], Min2(tri[2][1], tri[3][1])))
        right  == ToInt(Max2(tri[1][1], Max2(tri[2][1], tri[3][1])))
        bottom == ToInt(Min2(tri[1][2], Min2(tri[2][2], tri[3][2])))
        top    == ToInt(Max2(tri[1][2], Max2(tri[2][2], tri[3][2])))
    IN  << Max2(left, 0), Max2(bottom, 0),
           Min2(right, width - 1), Min2(top, height - 1) >>

\* backfacing: the sign of the edge sum
backfacing(tri) ==
    LET a == tri[1]
        b == tri[2]
        c == tri[3]
    IN  (a[1] * b[2] - a[2] * b[1] + b[1] * c[2] - b[2] * c[1]
         + c[1] * a[2] - c[2] * a[1]) > 0

\* barycentric of the pixel (x, y): the numerators of v and w and their common
\* denominator den (u = 1 - v - w); den = 0 makes 1/den infinite in the code
barycentric(tri, x, y) ==
    LET a   == tri[1]
        v0  == << tri[2][1] - a[1], tri[2][2] - a[2] >>
        v1  == << tri[3][1] - a[1], tri[3][2] - a[2] >>
        v2  == << 2 * x - a[1], 2 * y - a[2] >>
    IN  [den |-> v0[1] * v1[2] - v1[1] * v0[2],
         nv  |-> v2[1] * v1[2] - v1[1] * v2[2],
         nw  |-> v0[1] * v2[2] - v2[1] * v0[2]]

\* bcoords.x >= 0 && bcoords.y >= 0 && bcoords.z >= 0; with den = 0 a
\* coordinate is infinite or NaN and the test fails
Covers(tri, x, y) ==
    LET b == barycentric(tri, x, y)
    IN  /\ b.den # 0
        /\ (b.den - b.nv - b.nw) * b.den >= 0
        /\ b.nv * b.den >= 0
        /\ b.nw * b.den >= 0

\* frag_depth = glm::dot(bcoords, depths)
FragDepth(tri, depths, x, y) ==
    LET b == barycentric(tri, x, y)
    IN  Rat((b.den - b.nv - b.nw) * depths[1] + b.nv * depths[2]
            + b.nw * depths[3], b.den)

(***************************************************************************)
(* Shaders (shader.h)                                                      *)
(***************************************************************************)
Discarded == [discarded |-> TRUE, color |-> << 0, 0, 0, 0 >>]

Kept(c) == [discarded |-> FALSE, color |-> c]

\* DefaultShader::fragment, the "vertex color" step at its end
VertexColor(prim, color) ==
    IF prim.hasColor
    THEN ColorMulVec4(color, << prim.vColor[1], prim.vColor[2], prim.vColor[3], 255 >>)
    ELSE color

\* DefaultShader::fragment, the lighting step (skipped when unlit); the dot
\* products with the light are inputs of the primitive: shading in
\* [0.8, 1] and specular, both over 255; the light is white
Lighting(prim, color) ==
    IF prim.material.unlit \/ prim.shading <= 0
    THEN color
    ELSE LET specularColor == ColorScale(<< 255, 255, 255, 255 >>, prim.specular)
             lit == ColorAdd(ColorScale(color, prim.shading), specularColor)
         IN  [lit EXCEPT ![4] = color[4]]

\* DefaultShader::fragment, the base color step with a texture: the texel
\* after the alpha mode is applied; mix is the pass framebuffer's pixel
Diffuse(m, mix) ==
    IF m.alphaMode = "Opaque" THEN Opaque(m.texel)
    ELSE IF m.alphaMode = "Blend"
    THEN ColorAdd(ColorScale(Opaque(m.texel), m.texel[4]),
                  ColorScale(mix, 255 - m.texel[4]))
    ELSE m.texel

\* fault variant of the alpha-cutoff test: the byte A() and not the float Af()
\* is compared with the cutoff
BelowCutOffByte(m) == m.texel[4] * 255 < m.alphaCutOff

\* the alpha-cutoff test: diffuse.Af() < material->alphaCutOff, with the
\* cutoff kept as a numerator over 255
BelowCutOff(m) == m.texel[4] < m.alphaCutOff

\* fault variant of the double-sided test: no face is culled
CulledNever(m, bf) == FALSE

\* DefaultShader::fragment, the double-sided test
Culled(m, bf) == ~m.doubleSided /\ bf

\* DefaultShader::fragment
DefaultFragment(prim, fb, x, y, bf) ==
    LET m     == prim.material
        zero  == << 0, 0, 0, 0 >>
    IN  IF m.isNull THEN Kept(VertexColor(prim, zero))
        ELSE IF Culled(m, bf) THEN Discarded
        ELSE IF m.hasTexture
        THEN IF m.alphaMode # "Opaque" /\ m.texHasAlpha /\ m.texel[4] = 0
             THEN Discarded
             ELSE IF m.alphaMode = "Mask" /\ m.texHasAlpha /\ BelowCutOff(m)
             THEN Discarded
             ELSE LET diffuse == Diffuse(m, ImageGet(fb, x, y))
                      c       == ColorAdd(zero, ColorMulVec4(diffuse, m.baseColor))
                  IN  Kept(VertexColor(prim, Lighting(prim, c)))
        \* the sum with Color(0, 0, 0, 0) is in the range of uint8_t
        ELSE Kept(VertexColor(prim, Lighting(prim, ColorAddVec4(zero, m.baseColor, "wrap"))))

\* OutlineShader::fragment, the outline color after the call: the member is
\* overwritten when the material carries a VRM0 outline color and kept
\* otherwise
OutlineColorAfter(prim, outlineColor) ==
    IF ~prim.material.isNull /\ prim.material.hasVrm0
       /\ prim.material.hasOutlineColor
    THEN prim.material.outlineColor
    ELSE outlineColor

\* OutlineShader::fragment (outlineWidthFactor and outlineLightingMix are 1)
OutlineFragment(prim, outlineColor, bf) ==
    IF ~bf THEN Discarded
    ELSE Kept(ColorScale(ColorScale(OutlineColorAfter(prim, outlineColor), 255), 255))

(***************************************************************************)
(* drawBB / draw (render.cpp)                                              *)
(*                                                                         *)
(* A shader instance is [kind, fb, zb, outlineColor]: its framebuffer, its *)
(* z-buffer (indexed by x + y * width from 0) and, for the OutlineShader,  *)
(* the outlineColor member.                                                *)
(***************************************************************************)
\* shader->fragment(ctx, bcoords, p, backfacing(tri), color)
Fragment(sh, prim, x, y) ==
    IF sh.kind = "default"
    THEN DefaultFragment(prim, sh.fb, x, y, backfacing(prim.tri))
    ELSE OutlineFragment(prim, sh.outlineColor, backfacing(prim.tri))

\* a fault: drawBB without the depth test
FragmentCalledUntested(sh, prim, x, y) ==
    LET box == bb(prim.tri, sh.fb.width, sh.fb.height)
    IN  /\ box[1] <= x /\ x <= box[3]
        /\ box[2] <= y /\ y <= box[4]
        /\ Covers(prim.tri, x, y)
        /\ inBounds(x, y, sh.fb.width, sh.fb.height)

\* drawBB: the pixel (x, y) lies in the clamped bounding box, is covered, and
\* passes the depth test, so that shader->fragment is called for it
FragmentCalled(sh, prim, x, y) ==
    LET box == bb(prim.tri, sh.fb.width, sh.fb.height)
    IN  /\ box[1] <= x /\ x <= box[3]
        /\ box[2] <= y /\ y <= box[4]
        /\ Covers(prim.tri, x, y)
        /\ inBounds(x, y, sh.fb.width, sh.fb.height)
        /\ DepthLess(sh.zb[x + y * sh.fb.width],
                     FragDepth(prim.tri, prim.depths, x, y))

\* drawBB: the pixel is written (z-buffer entry and framebuffer pixel)
FragmentKept(sh, prim, x, y) ==
    FragmentCalled(sh, prim, x, y) /\ ~Fragment(sh, prim, x, y).discarded

\* drawBB over the bounding box of one triangle
drawBB(sh, prim) ==
    LET w == sh.fb.width
        X(i) == i % w
        Y(i) == i \div w
        oc == IF sh.kind = "outline" /\ backfacing(prim.tri)
                 /\ \E i \in Pixels(sh.fb) : FragmentCalled(sh, prim, X(i), Y(i))
              THEN OutlineColorAfter(prim, sh.outlineColor)
              ELSE sh.outlineColor
    IN  [kind |-> sh.kind,
         fb |-> WithPixels(sh.fb,
                   [i \in Pixels(sh.fb) |->
                      IF FragmentKept(sh, prim, X(i), Y(i))
                      THEN SubSeq(Fragment(sh, prim, X(i), Y(i)).color, 1, sh.fb.format)
                      ELSE PixelBytes(sh.fb, i)]),
         zb |-> [i \in Pixels(sh.fb) |->
                   IF FragmentKept(sh, prim, X(i), Y(i))
                   THEN FragDepth(prim.tri, prim.depths, X(i), Y(i))
                   ELSE sh.zb[i]],
         outlineColor |-> oc]

\* draw(RenderOp *): the triangle is rasterized only when one of its vertices
\* truncates to a pixel of the framebuffer
draw(sh, prim) ==
    IF isInTriangle(prim.tri, sh.fb.width, sh.fb.height)
    THEN drawBB(sh, prim)
    ELSE sh

(***************************************************************************)
(* Render queues (render.cpp, queue and the sort of render)                *)
(***************************************************************************)
\* a fault: the VRM0 renderQueue value is ignored
QueueKeyZero(prim) == 0

\* the key of a primitive's queue
QueueKey(prim) ==
    IF ~prim.material.isNull /\ prim.material.hasVrm0
    THEN prim.material.renderQueue
    ELSE 0

\* queue: the ops (indices into the traversal order `prims`) appended to the
\* map in traversal order, from primitive j on
RECURSIVE queue(_, _, _)
queue(prims, j, rq) ==
    IF j > Len(prims) THEN rq
    ELSE LET k == QueueKey(prims[j])
         IN  queue(prims, j + 1,
                   IF k \in DOMAIN rq
                   THEN [rq EXCEPT ![k] = Append(@, j)]
                   ELSE [q \in (DOMAIN rq) \cup {k} |->
                            IF q = k THEN << j >> ELSE rq[q]])

\* the empty std::map
EmptyQueue == [k \in {} |-> << >>]

\* the outcomes of std::sort (not stable) with the comparator
\* a.primitive->center.z < b.primitive->center.z
SortOutcomes(prims, ops) ==
    {s \in [1..Len(ops) -> {ops[i] : i \in 1..Len(ops)}] :
        /\ \A i, j \in 1..Len(ops) : i # j => s[i] # s[j]
        /\ \A i, j \in 1..Len(ops) :
              i < j => prims[s[i]].centerZ <= prims[s[j]].centerZ}

(***************************************************************************)
(* Compositor (render.cpp, render)                                         *)
(***************************************************************************)
\* a fault: the compositor copies the pass pixel whatever its alpha
CompositePixelCopy(acc, srcBytes, srcDepth, stride) ==
    IF DepthLess(acc.depth, srcDepth)
    THEN [depth |-> srcDepth, bytes |-> srcBytes]
    ELSE acc

\* one pass at one pixel: acc = [bytes, depth] of the output, src the pass
CompositePixel(acc, srcBytes, srcDepth, stride) ==
    IF DepthLess(acc.depth, srcDepth)
    THEN [depth |-> srcDepth,
          bytes |->
            IF stride = RGBA /\ srcBytes[4] # 255
            THEN LET srcColor == ColorFromBytes(srcBytes, stride)
                     dstColor == ColorFromBytes(acc.bytes, stride)
                     alpha    == srcColor[4]
                     mixed    == ColorAdd(ColorScale(dstColor, 255 - alpha),
                                          ColorScale(srcColor, alpha))
                 IN  SubSeq(mixed, 1, stride)
            ELSE srcBytes]
    ELSE acc

\* the passes in insertion order at pixel i
RECURSIVE CompositeFrom(_, _, _, _, _)
CompositeFrom(shs, n, k, acc, i) ==
    IF k > n THEN acc
    ELSE CompositeFrom(shs, n, k + 1,
            CompositePixel(acc, PixelBytes(shs[k].fb, i), shs[k].zb[i],
                           shs[k].fb.format), i)

(***************************************************************************)
(* Post-processing (render.cpp)                                            *)
(***************************************************************************)
\* (uint8_t) of the float c * factor, factor = (height - distance) / height,
\* for the pixel (x, y): with s2 = (2x - w)^2 + (2y - h)^2 the distance is
\* sqrt(s2) / 2.  A negative product is outside the range of uint8_t: the
\* conversion is undefined, and `ub` picks what the build makes of it
VignetteByte(c, x, y, w, h, ub) ==
    LET s2 == (2 * x - w) * (2 * x - w) + (2 * y - h) * (2 * y - h)
        \* b <= c * factor, for 0 <= b <= c
        Below(b) == c * c * s2 <= ((c - b) * 2 * h) * ((c - b) * 2 * h)
        \* b <= -(c * factor)
        BelowNeg(b) == ((b + c) * 2 * h) * ((b + c) * 2 * h) <= c * c * s2
    IN  IF s2 <= 4 * h * h
        THEN CHOOSE b \in 0..c : Below(b) /\ (b = c \/ ~Below(b + 1))
        ELSE LET t == CHOOSE b \in 0..(4 * c) :
                         BelowNeg(b) /\ (b = 4 * c \/ ~BelowNeg(b + 1))
             IN  IF ub = "saturate" THEN 0 ELSE (256 - (t % 256)) % 256

\* the outcomes of an out-of-range float -> uint8_t conversion
UBOutcomes == {"wrap", "saturate"}

\* generateVignette
generateVignette(dst, bgColor, ub) ==
    WithPixels(dst,
        [i \in Pixels(dst) |->
            LET x == i % dst.width
                y == i \div dst.width
            IN  IF ImageGet(dst, x, y)[4] # 0
                THEN PixelBytes(dst, i)
                ELSE SubSeq(<< VignetteByte(bgColor[1], x, y, dst.width, dst.height, ub),
                               VignetteByte(bgColor[2], x, y, dst.width, dst.height, ub),
                               VignetteByte(bgColor[3], x, y, dst.width, dst.height, ub),
                               255 >>, 1, dst.format)])

\* the sum of channel c over the kernelSize x kernelSize block of src at (xx, yy)
BlockSum(src, xx, yy, kernelSize, c) ==
    LET cell(n) == ImageGet(src, xx + (n \div kernelSize), yy + (n % kernelSize))[c]
        sum[n \in 0..(kernelSize * kernelSize)] ==
            IF n = 0 THEN 0 ELSE sum[n - 1] + cell(n - 1)
    IN  sum[kernelSize * kernelSize]

\* a fault: the corner of the block and not its mean
generateSSAACorner(src, kernelSize) ==
    LET dst == ImageReset(src.width \div kernelSize, src.height \div kernelSize,
                          src.format)
    IN  WithPixels(dst,
            [i \in Pixels(dst) |->
                LET c == ImageGet(src, (i % dst.width) * kernelSize,
                                       (i \div dst.width) * kernelSize)
                IN  SubSeq(<< c[1], c[2], c[3], 255 >>, 1, dst.format)])

\* generateSSAA
generateSSAA(src, kernelSize) ==
    LET sq  == (kernelSize * kernelSize) % 256
        dst == ImageReset(src.width \div kernelSize, src.height \div kernelSize,
                          src.format)
    IN  WithPixels(dst,
            [i \in Pixels(dst) |->
                LET xx == (i % dst.width) * kernelSize
                    yy == (i \div dst.width) * kernelSize
                IN  SubSeq(<< (BlockSum(src, xx, yy, kernelSize, 1) \div sq) % 256,
                              (BlockSum(src, xx, yy, kernelSize, 2) \div sq) % 256,
                              (BlockSum(src, xx, yy, kernelSize, 3) \div sq) % 256,
                              255 >>, 1, dst.format)])

\* the bytes a read outside a buffer can find
GarbageBytes == {0, 9}

\* fault variant of the SSAA step: the framebuffer is not replaced
DownscaledNot(fb, opts) == fb

\* render, the SSAA step: tmp is downscaled from the framebuffer, which is
\* then reset to the output size and filled from tmp
Downscaled(fb, opts) ==
    ImageCopy(ImageReset(opts.width, opts.height, opts.format),
              generateSSAA(fb, opts.ssaaKernelSize))

(***************************************************************************)
(* Inputs of the rendering specification                                   *)
(***************************************************************************)
\* options.width and options.height range over 1..MaxDim
MaxDim == 2

\* the background of the option sweep is translucent (the scenes of
\* SceneOptions have an opaque one)
Backgrounds == { << 10, 20, 30, 128 >> }

\* RenderOptions; the kernel size is explored when ssaa is on; camera.znear
\* and camera.zfar are kept in tenths and have their default values
OptionsSet ==
    {o \in [width : 1..MaxDim, height : 1..MaxDim, ssaa : BOOLEAN,
            ssaaKernelSize : 1..MaxKernel, outline : BOOLEAN,
            vignette : BOOLEAN, format : {RGB, RGBA},
            background : Backgrounds, znear : {1}, zfar : {1000}] :
        o.ssaa \/ o.ssaaKernelSize = 1}

\* an unlit, untextured material with the base color c
Flat(c, ds) ==
    [NoMaterial EXCEPT !.isNull = FALSE, !.doubleSided = ds, !.baseColor = c]

\* a textured material: alpha mode, cutoff (over 255) and the sampled texel
Textured(mode, cutoff, texel, hasAlpha) ==
    [NoMaterial EXCEPT !.isNull = FALSE, !.doubleSided = TRUE,
                       !.alphaMode = mode, !.alphaCutOff = cutoff,
                       !.hasTexture = TRUE, !.texHasAlpha = hasAlpha,
                       !.texel = texel, !.baseColor = << 255, 255, 255, 255 >>]

Prim(tri, depths, material, centerZ) ==
    [tri |-> tri, depths |-> depths, material |-> material,
     hasColor |-> FALSE, vColor |-> << 255, 255, 255 >>,
     shading |-> 255, specular |-> 0, centerZ |-> centerZ]

Red == << 255, 0, 0, 255 >>
Green == << 0, 255, 0, 255 >>
Blue == << 0, 0, 255, 255 >>
Yellow == << 255, 255, 0, 255 >>
Cyan == << 0, 255, 255, 255 >>

\* triangles in half-pixel units
\* covers every pixel of the framebuffers of the model; front-facing
TriFull == << << 0, 0 >>, << 0, 40 >>, << 40, 0 >> >>
\* the same triangle seen from behind
TriFullBack == << << 0, 0 >>, << 40, 0 >>, << 0, 40 >> >>
\* the pixels with x + y <= 2; its first vertex is at x = -0.5
TriCorner == << << -1, 0 >>, << 0, 4 >>, << 4, 0 >> >>
\* the pixels with x + y >= 3 and x, y <= 2; front-facing
TriFar == << << 5, 0 >>, << 0, 5 >>, << 5, 5 >> >>
\* covers the framebuffer but no vertex truncates to one of its pixels
TriOutside == << << -2, -2 >>, << -2, 40 >>, << 40, -2 >> >>
\* the three vertices on one line
TriLine == << << 0, 0 >>, << 2, 2 >>, << 4, 4 >> >>

\* the primitives the option sweep draws (at most one per scene)
SweepPrims ==
    { Prim(TriFull, << 1, 1, 1 >>, Flat(Red, FALSE), 0),
      Prim(TriFullBack, << 1, 1, 1 >>, Flat(Red, FALSE), 0),
      Prim(TriFullBack, << 1, 1, 1 >>, Flat(Green, TRUE), 0),
      Prim(TriCorner, << 2, 2, 2 >>,
           Textured("Mask", 153, << 0, 0, 255, 128 >>, TRUE), 0),
      Prim(TriFull, << 2, 2, 2 >>,
           Textured("Mask", 153, << 0, 0, 255, 200 >>, TRUE), 0),
      Prim(TriFullBack, << 2, 2, 2 >>,
           Textured("Mask", 153, << 0, 0, 255, 128 >>, TRUE), 0),
      Prim(TriOutside, << 1, 1, 1 >>, Flat(Red, TRUE), 0),
      Prim(TriLine, << 1, 1, 1 >>, Flat(Red, TRUE), 0),
      Prim(TriFull, << 0, 0, 0 >>, Flat(Blue, TRUE), 0) }

\* the primitives of the scenes of up to MaxPrims triangles
ScenePrims ==
    { Prim(TriFull, << 2, 2, 2 >>, Flat(Green, TRUE), 0),
      Prim(TriFullBack, << 1, 3, 2 >>, Flat(Blue, TRUE), 1),
      Prim(TriFar, << 3, 3, 3 >>, Flat(Yellow, TRUE), 1),
      Prim(TriFull, << 0, 0, 0 >>, Flat(Cyan, TRUE), 0),
      Prim(TriCorner, << 4, 4, 4 >>,
           Textured("Mask", 153, << 0, 0, 255, 128 >>, TRUE), 0) }

\* two opaque triangles of different colors at one depth: the pixels with
\* x + y >= 3 are covered by both
EqualDepthPrims ==
    { Prim(TriFull, << 2, 2, 2 >>, Flat(Green, TRUE), 0),
      Prim(TriFar, << 2, 2, 2 >>, Flat(Red, TRUE), 0) }

\* two back-facing triangles over the whole image: the material of the
\* nearer one carries a VRM0 outline color, the material of the other has no
\* VRM0 block
OutlinedPrims ==
    { Prim(TriFullBack, << 1, 1, 1 >>,
           [Flat(Red, TRUE) EXCEPT !.hasVrm0 = TRUE, !.hasOutlineColor = TRUE,
                                   !.outlineColor = << 255, 0, 0, 255 >>], 0),
      Prim(TriFullBack, << 2, 2, 2 >>, Flat(Green, TRUE), 0) }

\* a triangle with no material and no vertex colors in front of an opaque
\* green one
BarePrims ==
    { Prim(TriFull, << 3, 3, 3 >>, NoMaterial, 0),
      Prim(TriFull, << 2, 2, 2 >>, Flat(Green, TRUE), 0) }

\* the options of the scenes of up to MaxPrims triangles: a 3 x 3 image
SceneOptions ==
    [width : {3}, height : {3}, ssaa : {FALSE}, ssaaKernelSize : {1},
     outline : BOOLEAN, vignette : {FALSE}, format : {RGBA},
     background : { << 255, 255, 255, 255 >> }, znear : {1}, zfar : {1000}]

\* a RenderOptions the renderer is to refuse: a width or a height of 0, ssaa
\* with a kernel size of 0, or zfar <= znear
InvalidOption(o) ==
    \/ o.width = 0
    \/ o.height = 0
    \/ o.ssaa /\ o.ssaaKernelSize < 1
    \/ o.zfar <= o.znear

InvalidOptionsSet ==
    {o \in [width : 0..1, height : 0..1, ssaa : BOOLEAN,
            ssaaKernelSize : 0..1, outline : BOOLEAN,
            vignette : BOOLEAN, format : {RGBA},
            background : { << 10, 20, 30, 128 >> },
            znear : {1}, zfar : {0, 1, 1000}] :
        InvalidOption(o)}

SeqsUpTo(S, n) == UNION {[1..k -> S] : k \in 0..n}

(***************************************************************************)
(* State                                                                   *)
(***************************************************************************)
VARIABLES
    options,        \* scene.options
    prims,          \* the primitives of the scene in traversal order
    pc,             \* where render is
    framebuffer,    \* the Image render writes (its second argument)
    zbuffer,        \* the compositor's accumulated depths
    shaders,        \* the DefaultShader (1) and the OutlineShader (2)
    renderQueues,   \* per pass, the map queue key -> ops
    task,           \* per pass, the task of the two parallel loops
    \* a caller of the Image interface (ImageSpec)
    img,            \* the Image
    before,         \* the Image before the last call
    imgOp,          \* the last call and its arguments
    got,            \* the Color the last Image::get returned
    imgOps,         \* the number of calls made
    \* a caller of the loader and the renderer (NodeSpec)
    nodes,          \* scene.allNodes
    skins,          \* scene.skins
    roots,          \* scene.children
    nodeOp,         \* the last call of the caller
    edits,          \* the number of edits of local matrices made
    \* the morph steps of DefaultShader::vertex for one vertex (MorphSpec)
    morphIn,        \* the primitive's targets, the mesh's morphs, the vertex
    morphOut,       \* the morphed position, normal and tangent
    morphPc,        \* the next morph function vertex calls
    \* the memory the parallel loops of render touch (AccessSpec)
    accIn,          \* the outline option, the observer and the scene
    accPc,          \* where render is
    accTask,        \* per pass, the task of the two parallel loops
    accQueues,      \* per pass, the map queue key -> ops
    accesses,       \* the accesses the tasks have made
    \* the skinning of the vertices one pass draws (SkinSpec)
    skinIn,         \* the skins of the scene and the ops of the pass
    skinShader,     \* the jointMatrices and bindMatrix members of the Shader
    skinPc,         \* the op being drawn and where draw is
    skinOut,        \* per op, what Shader::skinning returned
    \* a caller of the Color operators (ColorSpec)
    colorIn,        \* the two operands
    colorOut,       \* the results of the operators called so far
    colorPc,        \* the next operator the caller calls
    \* a call of getNodeMatrix, statement by statement (WalkSpec)
    walkIn,         \* the nodes (matrix and parent pointer) and the argument
    walk,           \* the locals m, parent and cnt, and where the call is
    \* a call of loadGLTF (LoadSpec)
    docIn,          \* the parsed document: nodes (children, parent) and roots
    docOut,         \* what loadGLTF returned and the nodes of the scene
    \* one triangle in draw(RenderOp *) (BoxSpec)
    boxIn,          \* the projected triangle and the framebuffer size
    boxOut          \* whether drawBB was called, and with which box

renderVars == << options, prims, pc, framebuffer, zbuffer, shaders,
                 renderQueues, task >>

imageVars == << img, before, imgOp, got, imgOps >>

nodeVars == << nodes, skins, roots, nodeOp, edits >>

morphVars == << morphIn, morphOut, morphPc >>

accessVars == << accIn, accPc, accTask, accQueues, accesses >>

skinVars == << skinIn, skinShader, skinPc, skinOut >>

colorVars == << colorIn, colorOut, colorPc >>

walkVars == << walkIn, walk >>

docVars == << docIn, docOut >>

boxVars == << boxIn, boxOut >>

vars == << renderVars, imageVars, nodeVars, morphVars, accessVars, skinVars,
           colorVars, walkVars, docVars, boxVars >>

\* the variables render leaves alone
othersThanRender == << imageVars, nodeVars, morphVars, accessVars, skinVars,
    colorVars, walkVars, docVars, boxVars >>

\* the variables the Image interface leaves alone
othersThanImage == << renderVars, nodeVars, morphVars, accessVars, skinVars,
    colorVars, walkVars, docVars, boxVars >>

\* the variables the scene-transform updater and its caller leave alone
othersThanNodes == << renderVars, imageVars, morphVars, accessVars, skinVars,
    colorVars, walkVars, docVars, boxVars >>

\* the variables the morph functions leave alone
othersThanMorph == << renderVars, imageVars, nodeVars, accessVars, skinVars,
    colorVars, walkVars, docVars, boxVars >>

\* the variables the skinning leaves alone
othersThanSkin == << renderVars, imageVars, nodeVars, morphVars, accessVars,
    colorVars, walkVars, docVars, boxVars >>

\* the variables the Color operators leave alone
othersThanColor == << renderVars, imageVars, nodeVars, morphVars, accessVars,
    skinVars, walkVars, docVars, boxVars >>

\* the variables a call of getNodeMatrix leaves alone
othersThanWalk == << renderVars, imageVars, nodeVars, morphVars, accessVars,
    skinVars, colorVars, docVars, boxVars >>

\* the variables a call of loadGLTF leaves alone
othersThanDoc == << renderVars, imageVars, nodeVars, morphVars, accessVars,
    skinVars, colorVars, walkVars, boxVars >>

\* the variables the bounding box of one triangle leaves alone
othersThanBox == << renderVars, imageVars, nodeVars, morphVars, accessVars,
    skinVars, colorVars, walkVars, docVars >>

\* the variables the account of the memory accesses leaves alone
othersThanAccess == << renderVars, imageVars, nodeVars, morphVars, skinVars,
    colorVars, walkVars, docVars, boxVars >>

\* the passes: shaders{ &standard } and, with options.outline, &outline
Passes == IF options.outline THEN {1, 2} ELSE {1}

NumPasses == IF options.outline THEN 2 ELSE 1

\* the framebuffer size while rasterizing
RenderWidth == options.width * (IF options.ssaa THEN options.ssaaKernelSize ELSE 1)

RenderHeight == options.height * (IF options.ssaa THEN options.ssaaKernelSize ELSE 1)

\* DefaultShader standard; OutlineShader outline; before render touches them
NewShader(kind) ==
    [kind |-> kind, fb |-> EmptyImage, zb |-> << >>,
     outlineColor |-> << 0, 0, 0, 178 >>]

\* a task of a parallel loop: what it is to do next, the keys of the queues
\* it has not drawn yet and the ops left in the queue it is drawing
IdleTask == [at |-> "idle", keys |-> {}, ops |-> << >>]

\* the Image the caller passes to render: a new Image, or one that holds the
\* pixels of an earlier use
PreviousImages ==
    { EmptyImage,
      [width |-> 1, height |-> 1, format |-> RGBA, data |-> << 9, 9, 9, 9 >>] }

InitRenderOn(opts, scene, prev) ==
    /\ options = opts
    /\ prims = scene
    /\ pc = "start"
    /\ framebuffer = prev
    /\ zbuffer = << >>
    /\ shaders = << NewShader("default"), NewShader("outline") >>
    /\ renderQueues = << EmptyQueue, EmptyQueue >>
    /\ task = << IdleTask, IdleTask >>

InitRender(opts, scene) == InitRenderOn(opts, scene, EmptyImage)

(***************************************************************************)
(* render (render.cpp)                                                     *)
(***************************************************************************)
\* render, up to the first parallel loop: the compositor's z-buffer, the
\* reset of the output image, the list of passes and their empty queues
RenderBegin ==
    /\ pc = "start"
    /\ zbuffer' = [i \in 0..(RenderWidth * RenderHeight - 1) |-> FltMin]
    /\ framebuffer' = ImageResetOf(framebuffer, RenderWidth, RenderHeight, options.format)
    /\ renderQueues' = << EmptyQueue, EmptyQueue >>
    /\ task' = [i \in 1..2 |->
                  IF i \in Passes THEN [IdleTask EXCEPT !.at = "queue"]
                  ELSE IdleTask]
    /\ pc' = "queue"
    /\ UNCHANGED << options, prims, shaders >>
    /\ UNCHANGED othersThanRender

\* first parallel loop, the task of pass i: the pass buffers and the queues
QueueTask(i) ==
    /\ pc = "queue"
    /\ task[i].at = "queue"
    /\ shaders' = [shaders EXCEPT
          ![i].zb = [p \in 0..(RenderWidth * RenderHeight - 1) |-> FltMin],
          ![i].fb = ImageReset(RenderWidth, RenderHeight, options.format)]
    /\ renderQueues' = [renderQueues EXCEPT ![i] = queue(prims, 1, renderQueues[i])]
    /\ task' = [task EXCEPT ![i].at = "joined"]
    /\ UNCHANGED << options, prims, pc, framebuffer, zbuffer >>
    /\ UNCHANGED othersThanRender

\* the end of the first parallel loop
QueueJoin ==
    /\ pc = "queue"
    /\ \A i \in Passes : task[i].at = "joined"
    /\ pc' = "raster"
    /\ task' = [i \in 1..2 |->
                  IF i \in Passes
                  THEN [at |-> "next", keys |-> DOMAIN renderQueues[i], ops |-> << >>]
                  ELSE IdleTask]
    /\ UNCHANGED << options, prims, framebuffer, zbuffer, shaders, renderQueues >>
    /\ UNCHANGED othersThanRender

\* second parallel loop, pass i: the next queue in ascending key order is
\* sorted by center.z
SortQueue(i) ==
    /\ pc = "raster"
    /\ task[i].at = "next"
    /\ task[i].keys # {}
    /\ LET k == CHOOSE q \in task[i].keys : \A r \in task[i].keys : q <= r
       IN  \E s \in SortOutcomes(prims, renderQueues[i][k]) :
              /\ renderQueues' = [renderQueues EXCEPT ![i][k] = s]
              /\ task' = [task EXCEPT ![i] =
                            [at |-> "draw", keys |-> task[i].keys \ {k}, ops |-> s]]
    /\ UNCHANGED << options, prims, pc, framebuffer, zbuffer, shaders >>
    /\ UNCHANGED othersThanRender

\* second parallel loop, pass i: draw(&op) for the next op of the queue
DrawOp(i) ==
    /\ pc = "raster"
    /\ task[i].at = "draw"
    /\ shaders' = [shaders EXCEPT ![i] = draw(shaders[i], prims[Head(task[i].ops)])]
    /\ task' = [task EXCEPT
          ![i].ops = Tail(@),
          ![i].at = IF Len(task[i].ops) = 1 THEN "next" ELSE "draw"]
    /\ UNCHANGED << options, prims, pc, framebuffer, zbuffer, renderQueues >>
    /\ UNCHANGED othersThanRender

\* second parallel loop, pass i: no queue is left
TaskDone(i) ==
    /\ pc = "raster"
    /\ task[i].at = "next"
    /\ task[i].keys = {}
    /\ task' = [task EXCEPT ![i].at = "joined"]
    /\ UNCHANGED << options, prims, pc, framebuffer, zbuffer, shaders, renderQueues >>
    /\ UNCHANGED othersThanRender

\* the end of the second parallel loop
RasterJoin ==
    /\ pc = "raster"
    /\ \A i \in Passes : task[i].at = "joined"
    /\ pc' = "composite"
    /\ UNCHANGED << options, prims, framebuffer, zbuffer, shaders, renderQueues, task >>
    /\ UNCHANGED othersThanRender

\* the compositor: every pixel, the passes in insertion order
Composite ==
    /\ pc = "composite"
    /\ LET out == [i \in Pixels(framebuffer) |->
                     CompositeFrom(shaders, NumPasses, 1,
                        [bytes |-> PixelBytes(framebuffer, i), depth |-> zbuffer[i]], i)]
       IN  /\ framebuffer' = WithPixels(framebuffer, [i \in Pixels(framebuffer) |-> out[i].bytes])
           /\ zbuffer' = [i \in Pixels(framebuffer) |-> out[i].depth]
    /\ pc' = "post"
    /\ UNCHANGED << options, prims, shaders, renderQueues, task >>
    /\ UNCHANGED othersThanRender

\* the vignette or the background fill
Post ==
    /\ pc = "post"
    /\ IF options.vignette
       THEN \E ub \in UBOutcomes :
               framebuffer' = generateVignette(framebuffer, options.background, ub)
       ELSE framebuffer' = ImageFill(framebuffer, options.background)
    /\ pc' = IF options.ssaa THEN "ssaa" ELSE "done"
    /\ UNCHANGED << options, prims, zbuffer, shaders, renderQueues, task >>
    /\ UNCHANGED othersThanRender

\* the SSAA downscale into tmp, then framebuffer.reset and framebuffer.copy.
\* With a kernel size of 0 generateSSAA divides the integer src->width by
\* zero, which is undefined: the process is stopped, or the quotient is some
\* number and framebuffer.copy reads the bytes of tmp it finds
Downscale ==
    /\ pc = "ssaa"
    /\ IF options.ssaaKernelSize = 0
       THEN /\ pc' \in {"crashed", "done"}
            /\ \E g \in GarbageBytes :
                  framebuffer' =
                     IF pc' = "crashed" THEN framebuffer
                     ELSE [ImageReset(options.width, options.height, options.format)
                             EXCEPT !.data = [j \in DOMAIN @ |-> g]]
       ELSE /\ framebuffer' = Downscaled(framebuffer, options)
            /\ pc' = "done"
    /\ UNCHANGED << options, prims, zbuffer, shaders, renderQueues, task >>
    /\ UNCHANGED othersThanRender

RenderNext ==
    \/ RenderBegin
    \/ \E i \in 1..2 : QueueTask(i)
    \/ QueueJoin
    \/ \E i \in 1..2 : SortQueue(i)
    \/ \E i \in 1..2 : DrawOp(i)
    \/ \E i \in 1..2 : TaskDone(i)
    \/ RasterJoin
    \/ Composite
    \/ Post
    \/ Downscale

\* every RenderOptions with a scene of at most one primitive, the scenes of
\* up to MaxPrims primitives under the options SceneOptions, the scenes of
\* two triangles at one depth, the scenes of two outlined triangles and the
\* scenes with a triangle that has no material
RenderInit ==
    \/ \E o \in OptionsSet, sc \in SeqsUpTo(SweepPrims, 1), prev \in PreviousImages :
          InitRenderOn(o, sc, prev)
    \/ \E o \in SceneOptions, sc \in SeqsUpTo(ScenePrims, MaxPrims) : InitRender(o, sc)
    \/ \E o \in SceneOptions, sc \in [1..2 -> EqualDepthPrims] : InitRender(o, sc)
    \/ \E o \in SceneOptions, sc \in [1..2 -> OutlinedPrims] : InitRender(o, sc)
    \/ \E o \in SceneOptions, sc \in [1..2 -> BarePrims] : InitRender(o, sc)

\* render is not running
RenderIdle == InitRender(CHOOSE o \in SceneOptions : ~o.outline, << >>)

(***************************************************************************)
(* A caller of the Image interface (scene.h, scene.cpp): an Image of any   *)
(* format is reset, written with set and filled, and read with get         *)
(***************************************************************************)
\* the widths and heights of the images are in 1..MaxImageDim
MaxImageDim == 2
\* the caller makes at most MaxImageOps calls
MaxImageOps == 2

\* the colors the caller passes
Palette == { << 7, 8, 9, 255 >>, << 7, 8, 9, 0 >>, << 1, 2, 3, 128 >> }

InitImage(w, h, f) ==
    /\ img = ImageReset(w, h, f)
    /\ before = EmptyImage
    /\ imgOp = [name |-> "reset", x |-> 0, y |-> 0, color |-> DefaultColor]
    /\ got = DefaultColor
    /\ imgOps = 0

ImageIdle == InitImage(0, 0, RGBA)

\* img.set(x, y, c)
Set(x, y, c) ==
    /\ imgOps < MaxImageOps
    /\ img' = ImageSet(img, x, y, c)
    /\ before' = img
    /\ imgOp' = [name |-> "set", x |-> x, y |-> y, color |-> c]
    /\ imgOps' = imgOps + 1
    /\ UNCHANGED got
    /\ UNCHANGED othersThanImage

\* img.get(x, y)
Get(x, y) ==
    /\ imgOps < MaxImageOps
    /\ got' = ImageGet(img, x, y)
    /\ before' = img
    /\ imgOp' = [name |-> "get", x |-> x, y |-> y, color |-> DefaultColor]
    /\ imgOps' = imgOps + 1
    /\ UNCHANGED img
    /\ UNCHANGED othersThanImage

\* img.fill(c)
Fill(c) ==
    /\ imgOps < MaxImageOps
    /\ img' = ImageFill(img, c)
    /\ before' = img
    /\ imgOp' = [name |-> "fill", x |-> 0, y |-> 0, color |-> c]
    /\ imgOps' = imgOps + 1
    /\ UNCHANGED got
    /\ UNCHANGED othersThanImage

ImageNext ==
    \/ \E x, y \in 0..MaxImageDim, c \in Palette : Set(x, y, c)
    \/ \E x, y \in 0..MaxImageDim : Get(x, y)
    \/ \E c \in Palette : Fill(c)

(***************************************************************************)
(* The scene-transform updater (loader.cpp) and its caller (main.cpp)      *)
(*                                                                         *)
(* A matrix is kept as the word of the generators it is the product of:    *)
(* the product is the concatenation and the identity the empty word, so    *)
(* that two words are equal exactly when the products are equal for every  *)
(* choice of the generator matrices.  The zero matrix is ZeroMat.          *)
(* A Node is [matrix, parent, children, skin, bindMatrix] and a Skin is    *)
(* [joints, inverseBindMatrices, jointMatrices]; nodes and skins are named *)
(* by their index in scene.allNodes and scene.skins, 0 is nullptr.         *)
(***************************************************************************)
\* getNodeMatrix multiplies in at most 64 ancestors
MaxAncestors == 64
\* the caller edits at most MaxEdits local matrices
MaxEdits == 2

IdentityMat == << >>

ZeroMat == << "0" >>

\* a * b
Mul(a, b) == IF a = ZeroMat \/ b = ZeroMat THEN ZeroMat ELSE a \o b

\* glm::mat4{}: the zero matrix, or the identity when GLM is configured to
\* initialize in its constructors
DefaultMats == {ZeroMat, IdentityMat}

\* getNodeMatrix, the loop: cnt is a uint8_t
RECURSIVE NodeMatrixFrom(_, _, _, _)
NodeMatrixFrom(ns, m, parent, cnt) ==
    IF parent = 0 THEN m
    ELSE IF (cnt + 1) % 256 > MaxAncestors THEN m
    ELSE NodeMatrixFrom(ns, Mul(ns[parent].matrix, m), ns[parent].parent,
                        (cnt + 1) % 256)

\* fault variant of getNodeMatrix: the ancestors are left out
getNodeMatrixOwn(ns, n) == ns[n].matrix

\* getNodeMatrix
getNodeMatrix(ns, n) == NodeMatrixFrom(ns, ns[n].matrix, ns[n].parent, 0)

\* update(Node *) on the scene sc = [nodes, skins]: the node, the joints of
\* its skin, then its children in order
RECURSIVE updateNode(_, _)
RECURSIVE updateNodes(_, _, _)
updateNode(sc, n) ==
    LET s1 == [sc EXCEPT !.nodes[n].bindMatrix = getNodeMatrix(sc.nodes, n)]
        k  == s1.nodes[n].skin
        s2 == IF k # 0
              THEN [s1 EXCEPT !.skins[k].jointMatrices =
                      [i \in 1..Len(s1.skins[k].joints) |->
                          Mul(getNodeMatrix(s1.nodes, s1.skins[k].joints[i]),
                              s1.skins[k].inverseBindMatrices[i])]]
              ELSE s1
    IN  updateNodes(s2, s2.nodes[n].children, 1)

\* the loop over a list of nodes, from its element number j on
updateNodes(sc, list, j) ==
    IF j > Len(list) THEN sc
    ELSE updateNodes(updateNode(sc, list[j]), list, j + 1)

\* update(Scene &) on the scene [nodes, skins, roots]
update(sc) ==
    LET r == updateNodes([nodes |-> sc.nodes, skins |-> sc.skins], sc.roots, 1)
    IN  [nodes |-> r.nodes, skins |-> r.skins, roots |-> sc.roots]

(***************************************************************************)
(* LoadScene (loader.cpp), the nodes and the skins of a glTF document      *)
(* gl = [nodes, roots, skins]: a node of the document is [matrix,          *)
(* children, skin] and a skin [joints, inverseBindMatrices]                *)
(***************************************************************************)
\* LoadNode: the local matrix and the skin reference; bindMatrix is
\* default-initialized to d
LoadNode(cnode, d) ==
    [matrix |-> cnode.matrix, parent |-> 0, children |-> << >>,
     skin |-> cnode.skin, bindMatrix |-> d]

\* LoadNodeInScene: the parent and the children of every node under n
RECURSIVE LoadNodeInScene(_, _, _, _)
RECURSIVE LoadNodesInScene(_, _, _, _, _)
LoadNodeInScene(gl, ns, n, parent) ==
    LoadNodesInScene(gl,
        [ns EXCEPT ![n].parent = parent, ![n].children = gl.nodes[n].children],
        gl.nodes[n].children, 1, n)

LoadNodesInScene(gl, ns, list, j, parent) ==
    IF j > Len(list) THEN ns
    ELSE LoadNodesInScene(gl, LoadNodeInScene(gl, ns, list[j], parent),
                          list, j + 1, parent)

\* LoadSkin for the skins from number k on: every joint node is given the
\* skin, and the joint matrices start as the identity
RECURSIVE LoadSkins(_, _, _)
LoadSkins(gl, sc, k) ==
    IF k > Len(gl.skins) THEN sc
    ELSE LET cskin == gl.skins[k]
             skin  == [joints |-> cskin.joints,
                       inverseBindMatrices |-> cskin.inverseBindMatrices,
                       jointMatrices |-> [i \in 1..Len(cskin.joints) |-> IdentityMat]]
         IN  LoadSkins(gl,
                [nodes |-> [n \in DOMAIN sc.nodes |->
                              IF \E i \in 1..Len(cskin.joints) : cskin.joints[i] = n
                              THEN [sc.nodes[n] EXCEPT !.skin = k]
                              ELSE sc.nodes[n]],
                 skins |-> Append(sc.skins, skin)],
                k + 1)

\* LoadScene: the nodes, the hierarchy under the roots, the skins, and
\* update(scene)
LoadScene(gl, d) ==
    LET loaded == [n \in DOMAIN gl.nodes |-> LoadNode(gl.nodes[n], d)]
        linked == LoadNodesInScene(gl, loaded, gl.roots, 1, 0)
        sc     == LoadSkins(gl, [nodes |-> linked, skins |-> << >>], 1)
    IN  update([nodes |-> sc.nodes, skins |-> sc.skins, roots |-> gl.roots])

\* the documents: a chain whose root uses a skin of its two descendants; a
\* scene that leaves out node 3, which carries a skin; two roots, one of them
\* a joint; a root with two children and no skin
GLTFNode(m, children, skin) == [matrix |-> m, children |-> children, skin |-> skin]

GLTFs ==
    { [nodes |-> << GLTFNode(<< "A" >>, << 2 >>, 1), GLTFNode(<< "B" >>, << 3 >>, 0),
                    GLTFNode(<< "C" >>, << >>, 0) >>,
       roots |-> << 1 >>,
       skins |-> << [joints |-> << 2, 3 >>, inverseBindMatrices |-> << << "P" >>, << "Q" >> >>] >>],
      [nodes |-> << GLTFNode(<< "A" >>, << 2 >>, 0), GLTFNode(<< "B" >>, << >>, 0),
                    GLTFNode(<< "C" >>, << >>, 1) >>,
       roots |-> << 1 >>,
       skins |-> << [joints |-> << 3 >>, inverseBindMatrices |-> << << "P" >> >>] >>],
      [nodes |-> << GLTFNode(<< "A" >>, << >>, 0), GLTFNode(IdentityMat, << 3 >>, 0),
                    GLTFNode(<< "C" >>, << >>, 1) >>,
       roots |-> << 1, 2 >>,
       skins |-> << [joints |-> << 1 >>, inverseBindMatrices |-> << << "P" >> >>] >>],
      [nodes |-> << GLTFNode(<< "A" >>, << 2, 3 >>, 0), GLTFNode(<< "B" >>, << >>, 0),
                    GLTFNode(<< "C" >>, << >>, 0) >>,
       roots |-> << 1 >>,
       skins |-> << >>] }

\* the rotations main multiplies into local matrices
Rotations == { << "L" >>, << "R" >> }

\* after loadGLTF
InitNodes(gl, d) ==
    LET sc == LoadScene(gl, d)
    IN  /\ nodes = sc.nodes
        /\ skins = sc.skins
        /\ roots = sc.roots
        /\ nodeOp = "load"
        /\ edits = 0

\* no scene is loaded
NodesIdle ==
    /\ nodes = << >>
    /\ skins = << >>
    /\ roots = << >>
    /\ nodeOp = "load"
    /\ edits = 0

\* main: node.matrix *= rotation
EditMatrix(n, r) ==
    /\ nodeOp # "render"
    /\ edits < MaxEdits
    /\ nodes' = [nodes EXCEPT ![n].matrix = Mul(@, r)]
    /\ nodeOp' = "edit"
    /\ edits' = edits + 1
    /\ UNCHANGED << skins, roots >>
    /\ UNCHANGED othersThanNodes

\* main: update(scene)
Update ==
    /\ nodeOp # "render"
    /\ LET sc == update([nodes |-> nodes, skins |-> skins, roots |-> roots])
       IN  /\ nodes' = sc.nodes
           /\ skins' = sc.skins
    /\ nodeOp' = "update"
    /\ UNCHANGED << roots, edits >>
    /\ UNCHANGED othersThanNodes

\* main: render(scene, outputImage), up to the first parallel loop: render
\* reads the nodes and writes none of them
Render ==
    /\ nodeOp # "render"
    /\ nodeOp' = "render"
    /\ UNCHANGED << nodes, skins, roots, edits >>
    /\ UNCHANGED othersThanNodes

NodeNext ==
    \/ \E n \in DOMAIN nodes, r \in Rotations : EditMatrix(n, r)
    \/ Update
    \/ Render

(***************************************************************************)
(* Morph targets (shader.h, scene.h)                                       *)
(*                                                                         *)
(* A vector is kept as one integer component and a weight as an integer.   *)
(* A Target is [vertices, normals, tangents], each array empty when the    *)
(* glTF target does not carry the attribute and sized to the vertex count  *)
(* otherwise.  The result of a morph function is [crash, v].               *)
(***************************************************************************)
\* a primitive has at most MaxTargets morph targets
MaxTargets == 2
\* a mesh has at most MaxMorphs morphs
MaxMorphs == 2
\* the primitive has NumVerts vertices
NumVerts == 2

Returned(v) == [crash |-> FALSE, v |-> v]

Crashed == [crash |-> TRUE, v |-> 0]

\* what a read past the end of an array may find
Garbage == {0, 9}

\* array[idx] of a std::vector: past the end the behaviour is undefined, the
\* read faults or finds some value
ReadOutcomes(array, idx) ==
    IF idx <= Len(array) THEN { Returned(array[idx]) }
    ELSE { Crashed } \cup { Returned(g) : g \in Garbage }

\* Primitive::vertAtTarget: no test of the array
vertAtTarget(targets, idx, i) == ReadOutcomes(targets[i].vertices, idx)

\* Primitive::normalAtTarget: glm::vec3() when the target has no normals
normalAtTarget(targets, idx, i) ==
    IF Len(targets[i].normals) > 0
    THEN ReadOutcomes(targets[i].normals, idx)
    ELSE { Returned(0) }

\* Primitive::tangentAtTarget: glm::vec4() when the target has no tangents
tangentAtTarget(targets, idx, i) ==
    IF Len(targets[i].tangents) > 0
    THEN ReadOutcomes(targets[i].tangents, idx)
    ELSE { Returned(0) }

\* the accessor a morph function calls: vertAtTarget by morphVert,
\* normalAtTarget by morphNormal, tangentAtTarget by morphTangent
AtTarget(which, targets, idx, i) ==
    CASE which = "vert" -> vertAtTarget(targets, idx, i)
      [] which = "normal" -> normalAtTarget(targets, idx, i)
      [] which = "tangent" -> tangentAtTarget(targets, idx, i)

\* the loop of a morph function from target i on: *attr = *attr +
\* (xAtTarget(iface, ivert, i) * morphs->at(i).weight)
RECURSIVE MorphLoop(_, _, _, _, _, _)
MorphLoop(which, targets, weights, idx, i, attr) ==
    IF i > Len(targets) THEN { Returned(attr) }
    ELSE UNION { IF r.crash THEN { Crashed }
                 ELSE MorphLoop(which, targets, weights, idx, i + 1,
                                attr + r.v * weights[i]) :
                 r \in AtTarget(which, targets, idx, i) }

\* morphs == nullptr || numTargets > morphs->size()
MorphSkipped(targets, morphs) ==
    ~morphs.present \/ Len(targets) > Len(morphs.weights)

\* Shader::morphVert
morphVert(targets, morphs, idx, vert) ==
    IF MorphSkipped(targets, morphs) THEN { Returned(vert) }
    ELSE MorphLoop("vert", targets, morphs.weights, idx, 1, vert)

\* Shader::morphNormal
morphNormal(targets, morphs, idx, normal) ==
    IF MorphSkipped(targets, morphs) THEN { Returned(normal) }
    ELSE MorphLoop("normal", targets, morphs.weights, idx, 1, normal)

\* Shader::morphTangent
morphTangent(targets, morphs, idx, tangent) ==
    IF MorphSkipped(targets, morphs) THEN { Returned(tangent) }
    ELSE MorphLoop("tangent", targets, morphs.weights, idx, 1, tangent)

\* LoadPrimitive: a target with the displacement arrays its glTF target
\* carries, each sized to the vertex count
Target(hasPos, hasNrm, hasTng) ==
    [vertices |-> IF hasPos THEN [v \in 1..NumVerts |-> 10 * v] ELSE << >>,
     normals  |-> IF hasNrm THEN [v \in 1..NumVerts |-> v] ELSE << >>,
     tangents |-> IF hasTng THEN [v \in 1..NumVerts |-> 100 * v] ELSE << >>]

Targets == { Target(p, n, t) : p, n, t \in BOOLEAN }

\* shader->morphs: the mesh's morph list (nullptr before the first draw)
MorphLists ==
    { [present |-> FALSE, weights |-> << >>] }
    \cup { [present |-> TRUE, weights |-> w] : w \in SeqsUpTo({0, 1}, MaxMorphs) }

\* the vertex shader is about to morph vertex idx of the primitive
InitMorph(targets, morphs, idx) ==
    /\ morphIn = [targets |-> targets, morphs |-> morphs, idx |-> idx,
                  vert |-> 1000 + idx, normal |-> 2000 + idx,
                  tangent |-> 3000 + idx]
    /\ morphOut = [vert |-> Returned(0), normal |-> Returned(0),
                   tangent |-> Returned(0)]
    /\ morphPc = "vert"

MorphIdle ==
    InitMorph(<< >>, [present |-> FALSE, weights |-> << >>], 1)

\* DefaultShader::vertex: morphVert(iface, ivert, &vert)
MorphVert ==
    /\ morphPc = "vert"
    /\ \E r \in morphVert(morphIn.targets, morphIn.morphs, morphIn.idx, morphIn.vert) :
          /\ morphOut' = [morphOut EXCEPT !.vert = r]
          /\ morphPc' = IF r.crash THEN "crashed" ELSE "normal"
    /\ UNCHANGED morphIn
    /\ UNCHANGED othersThanMorph

\* DefaultShader::vertex: morphNormal(iface, ivert, &normal)
MorphNormal ==
    /\ morphPc = "normal"
    /\ \E r \in morphNormal(morphIn.targets, morphIn.morphs, morphIn.idx, morphIn.normal) :
          /\ morphOut' = [morphOut EXCEPT !.normal = r]
          /\ morphPc' = IF r.crash THEN "crashed" ELSE "tangent"
    /\ UNCHANGED morphIn
    /\ UNCHANGED othersThanMorph

\* DefaultShader::vertex: morphTangent(iface, ivert, &tangent)
MorphTangent ==
    /\ morphPc = "tangent"
    /\ \E r \in morphTangent(morphIn.targets, morphIn.morphs, morphIn.idx, morphIn.tangent) :
          /\ morphOut' = [morphOut EXCEPT !.tangent = r]
          /\ morphPc' = IF r.crash THEN "crashed" ELSE "done"
    /\ UNCHANGED morphIn
    /\ UNCHANGED othersThanMorph

MorphNext == MorphVert \/ MorphNormal \/ MorphTangent

(***************************************************************************)
(* The memory the two parallel loops of render touch (render.cpp,          *)
(* observer.h, main.cpp).  Each step of a task adds the locations it reads *)
(* and writes: a location is [name, index], the Shader instance and the    *)
(* queue map of pass i being ["shader", i] and ["queue", i].               *)
(***************************************************************************)
\* the scene of this account holds at most MaxQueued primitives
MaxQueued == 2

Loc(name, index) == [name |-> name, index |-> index]

Read(i, l) == [task |-> i, loc |-> l, write |-> FALSE]

Write(i, l) == [task |-> i, loc |-> l, write |-> TRUE]

\* the observers main may have subscribed: none, or its Observer with the
\* flags silent or verbose
Observers == {"none", "silent", "verbose"}

\* Observable::notifyMessage(SubjectType::Info, msg) called by task i: the
\* list of observers is walked and Observer::message called, which returns
\* on its flags or writes the message to std::cout
notifyMessage(i, observer) ==
    { Read(i, Loc("observers", 0)) }
    \cup (IF observer = "none" THEN {} ELSE { Read(i, Loc("observer", 0)) })
    \cup (IF observer = "verbose" THEN { Write(i, Loc("cout", 0)) } ELSE {})

\* the body of the first parallel loop for pass i: the z-buffer and the
\* framebuffer of the shader, then queue() over the scene
QueueAccesses(i, scene) ==
    { Read(i, Loc("shaders", 0)), Read(i, Loc("options", 0)),
      Write(i, Loc("shader", i)),
      Read(i, Loc("scene", 0)), Read(i, Loc("queue", i)) }
    \cup (IF Len(scene) > 0 THEN { Write(i, Loc("queue", i)) } ELSE {})

\* std::sort of one queue of pass i
SortAccesses(i) ==
    { Read(i, Loc("scene", 0)), Read(i, Loc("queue", i)), Write(i, Loc("queue", i)) }

\* draw(&op) by pass i: the pointers, the varyings, the outline parameters,
\* the framebuffer and the z-buffer of the shader
DrawAccesses(i) ==
    { Read(i, Loc("queue", i)), Read(i, Loc("scene", 0)), Read(i, Loc("ctx", 0)),
      Read(i, Loc("shader", i)), Write(i, Loc("shader", i)) }

\* a primitive whose material carries the VRM0 render queue key k
Queued(k) ==
    Prim(TriFull, << 1, 1, 1 >>,
         [Flat(Red, TRUE) EXCEPT !.hasVrm0 = TRUE, !.renderQueue = k], 0)

\* the primitives of the scene: with a VRM0 block, with a material that has
\* none, and with no material
QueuedPrims ==
    { Queued(0), Queued(1),
      Prim(TriFull, << 1, 1, 1 >>, Flat(Red, TRUE), 0),
      Prim(TriFull, << 1, 1, 1 >>, NoMaterial, 0) }

AccPasses == IF accIn.outline THEN {1, 2} ELSE {1}

InitAccess(outline, observer, scene) ==
    /\ accIn = [outline |-> outline, observer |-> observer, scene |-> scene]
    /\ accPc = "start"
    /\ accTask = << IdleTask, IdleTask >>
    /\ accQueues = << EmptyQueue, EmptyQueue >>
    /\ accesses = {}

AccessIdle == InitAccess(FALSE, "none", << >>)

\* render, up to the first parallel loop
AccessBegin ==
    /\ accPc = "start"
    /\ accPc' = "queue"
    /\ accTask' = [i \in 1..2 |->
                     IF i \in AccPasses THEN [IdleTask EXCEPT !.at = "queue"]
                     ELSE IdleTask]
    /\ UNCHANGED << accIn, accQueues, accesses >>
    /\ UNCHANGED othersThanAccess

\* first parallel loop, the task of pass i
AccessQueue(i) ==
    /\ accPc = "queue"
    /\ accTask[i].at = "queue"
    /\ accQueues' = [accQueues EXCEPT ![i] = queue(accIn.scene, 1, accQueues[i])]
    /\ accesses' = accesses \cup QueueAccesses(i, accIn.scene)
    /\ accTask' = [accTask EXCEPT ![i].at = "joined"]
    /\ UNCHANGED << accIn, accPc >>
    /\ UNCHANGED othersThanAccess

\* the end of the first parallel loop
AccessQueueJoin ==
    /\ accPc = "queue"
    /\ \A i \in AccPasses : accTask[i].at = "joined"
    /\ accPc' = "raster"
    /\ accTask' = [i \in 1..2 |->
                     IF i \in AccPasses
                     THEN [at |-> "next", keys |-> DOMAIN accQueues[i], ops |-> << >>]
                     ELSE IdleTask]
    /\ UNCHANGED << accIn, accQueues, accesses >>
    /\ UNCHANGED othersThanAccess

\* second parallel loop, pass i: the message "RenderQueue k" for the next
\* queue, then its sort
AccessSort(i) ==
    /\ accPc = "raster"
    /\ accTask[i].at = "next"
    /\ accTask[i].keys # {}
    /\ LET k == CHOOSE q \in accTask[i].keys : \A r \in accTask[i].keys : q <= r
       IN  \E srt \in SortOutcomes(accIn.scene, accQueues[i][k]) :
              /\ accQueues' = [accQueues EXCEPT ![i][k] = srt]
              /\ accTask' = [accTask EXCEPT ![i] =
                    [at |-> "draw", keys |-> accTask[i].keys \ {k}, ops |-> srt]]
    /\ accesses' = accesses \cup notifyMessage(i, accIn.observer) \cup SortAccesses(i)
    /\ UNCHANGED << accIn, accPc >>
    /\ UNCHANGED othersThanAccess

\* second parallel loop, pass i: draw(&op) for the next op of the queue
AccessDraw(i) ==
    /\ accPc = "raster"
    /\ accTask[i].at = "draw"
    /\ accesses' = accesses \cup DrawAccesses(i)
    /\ accTask' = [accTask EXCEPT
          ![i].ops = Tail(@),
          ![i].at = IF Len(accTask[i].ops) = 1 THEN "next" ELSE "draw"]
    /\ UNCHANGED << accIn, accPc, accQueues >>
    /\ UNCHANGED othersThanAccess

\* second parallel loop, pass i: no queue is left
AccessTaskDone(i) ==
    /\ accPc = "raster"
    /\ accTask[i].at = "next"
    /\ accTask[i].keys = {}
    /\ accTask' = [accTask EXCEPT ![i].at = "joined"]
    /\ UNCHANGED << accIn, accPc, accQueues, accesses >>
    /\ UNCHANGED othersThanAccess

\* the end of the second parallel loop
AccessRasterJoin ==
    /\ accPc = "raster"
    /\ \A i \in AccPasses : accTask[i].at = "joined"
    /\ accPc' = "composite"
    /\ UNCHANGED << accIn, accTask, accQueues, accesses >>
    /\ UNCHANGED othersThanAccess

AccessNext ==
    \/ AccessBegin
    \/ \E i \in 1..2 : AccessQueue(i)
    \/ AccessQueueJoin
    \/ \E i \in 1..2 : AccessSort(i)
    \/ \E i \in 1..2 : AccessDraw(i)
    \/ \E i \in 1..2 : AccessTaskDone(i)
    \/ AccessRasterJoin

(***************************************************************************)
(* Skinning (shader.h, Shader::skinning; render.cpp, draw)                 *)
(*                                                                         *)
(* A matrix is kept as one integer: jointMatrices[j] of skin k is          *)
(* JointMatrix(k, j), the bindMatrix of the node of op n is BindMatrix(n). *)
(* A pointer is 0 (nullptr), or the number of the skin or of the op whose  *)
(* node it points into.  A skin is given by the number of its joints.  An  *)
(* op is [skin, hasJoints, joint, weight]: the skin of its node (0: none)  *)
(* and the JOINTS_0 and WEIGHTS_0 of the vertex of its primitive.          *)
(***************************************************************************)
\* a skin has at most MaxJoints joints
MaxJoints == 2
\* a pass draws at most MaxSkinOps ops
MaxSkinOps == 2

JointMatrix(k, j) == 100 * k + j

BindMatrix(n) == 10 * n

\* what a read gives: it faulted, or found v; outside tells that it was a
\* read of jointMatrices at an index not below the number of joints
SkinRead(crash, v, outside) == [crash |-> crash, v |-> v, outside |-> outside]

\* jointMatrices[idx] through the pointer to the array of skin k: past the
\* end of the array the behaviour is undefined
JointRead(skinSet, k, idx) ==
    IF idx < skinSet[k] THEN { SkinRead(FALSE, JointMatrix(k, idx), FALSE) }
    ELSE { SkinRead(TRUE, 0, TRUE) } \cup { SkinRead(FALSE, g, TRUE) : g \in Garbage }

\* Shader::skinning
skinning(skinSet, sh, op) ==
    IF op.hasJoints /\ sh.jointMatrices # 0
    THEN LET reads(c) == JointRead(skinSet, sh.jointMatrices, op.joint[c])
         IN  { SkinRead(\E c \in 1..4 : r[c].crash,
                        IF \E c \in 1..4 : r[c].crash THEN 0
                        ELSE op.weight[1] * r[1].v + op.weight[2] * r[2].v
                             + op.weight[3] * r[3].v + op.weight[4] * r[4].v,
                        \E c \in 1..4 : r[c].outside) :
               r \in { << x, y, z, w >> : x \in reads(1), y \in reads(2),
                                         z \in reads(3), w \in reads(4) } }
    ELSE IF sh.bindMatrix = 0
         THEN { SkinRead(TRUE, 0, FALSE) } \cup { SkinRead(FALSE, g, FALSE) : g \in Garbage }
         ELSE { SkinRead(FALSE, BindMatrix(sh.bindMatrix), FALSE) }

\* the JOINTS_0 of a vertex: one component names a joint, the others joint 0
JointVecs ==
    { [c \in 1..4 |-> IF c = k THEN a ELSE 0] : k \in {1, 4}, a \in 0..MaxJoints }

\* the skins of a scene, each given by the number of its joints
SkinSets == { << >>, << 1 >>, << MaxJoints >>, << 1, MaxJoints >> }

SkinOps(skinSet) ==
    { [skin |-> k, hasJoints |-> FALSE, joint |-> << 0, 0, 0, 0 >>,
       weight |-> << 0, 0, 0, 0 >>] : k \in 0..Len(skinSet) }
    \cup { [skin |-> k, hasJoints |-> TRUE, joint |-> j, weight |-> << 1, 0, 0, 1 >>] :
             k \in 0..Len(skinSet), j \in JointVecs }

\* the result of an op that has not been drawn
NotDrawn == SkinRead(FALSE, 0, FALSE)

InitSkin(skinSet, ops) ==
    /\ skinIn = [skins |-> skinSet, ops |-> ops]
    /\ skinShader = [jointMatrices |-> 0, bindMatrix |-> 0]
    /\ skinPc = [op |-> 1, at |-> IF Len(ops) = 0 THEN "done" ELSE "setup"]
    /\ skinOut = [n \in 1..Len(ops) |-> NotDrawn]

SkinIdle == InitSkin(<< >>, << >>)

\* draw(RenderOp *): the pointer the node of the op gives the shader
SkinSetup ==
    /\ skinPc.at = "setup"
    /\ skinShader' = IF skinIn.ops[skinPc.op].skin # 0
                     THEN [skinShader EXCEPT !.jointMatrices = skinIn.ops[skinPc.op].skin]
                     ELSE [skinShader EXCEPT !.bindMatrix = skinPc.op]
    /\ skinPc' = [skinPc EXCEPT !.at = "vertex"]
    /\ UNCHANGED << skinIn, skinOut >>
    /\ UNCHANGED othersThanSkin

\* draw(RenderOp *): shader->vertex, which calls skinning
SkinVertex ==
    /\ skinPc.at = "vertex"
    /\ \E r \in skinning(skinIn.skins, skinShader, skinIn.ops[skinPc.op]) :
          /\ skinOut' = [skinOut EXCEPT ![skinPc.op] = r]
          /\ skinPc' = IF r.crash THEN [skinPc EXCEPT !.at = "crashed"]
                       ELSE IF skinPc.op = Len(skinIn.ops)
                            THEN [skinPc EXCEPT !.at = "done"]
                            ELSE [op |-> skinPc.op + 1, at |-> "setup"]
    /\ UNCHANGED << skinIn, skinShader >>
    /\ UNCHANGED othersThanSkin

SkinNext == SkinSetup \/ SkinVertex

(***************************************************************************)
(* A caller of the Color operators (scene.h): left + Color(right), then    *)
(* left + vec4(right / 255)                                                *)
(***************************************************************************)
\* the values a channel of an operand takes
ChannelValues == {0, 1, 127, 128, 200, 255}

ColorOperands == { << a, b, 0, 255 >> : a, b \in ChannelValues }

InitColor(left, right) ==
    /\ colorIn = [left |-> left, right |-> right]
    /\ colorOut = [sum |-> DefaultColor, sumVec4 |-> DefaultColor]
    /\ colorPc = "color"

ColorIdle == InitColor(DefaultColor, DefaultColor)

\* left + right, right a Color
PlusColor ==
    /\ colorPc = "color"
    /\ colorOut' = [colorOut EXCEPT !.sum = ColorAdd(colorIn.left, colorIn.right)]
    /\ colorPc' = "vec4"
    /\ UNCHANGED colorIn
    /\ UNCHANGED othersThanColor

\* left + right, right a glm::vec4 of the channels divided by 255
PlusVec4 ==
    /\ colorPc = "vec4"
    /\ \E ub \in ByteOutcomes :
          colorOut' = [colorOut EXCEPT
                         !.sumVec4 = ColorAddVec4(colorIn.left, colorIn.right, ub)]
    /\ colorPc' = "done"
    /\ UNCHANGED colorIn
    /\ UNCHANGED othersThanColor

ColorNext == PlusColor \/ PlusVec4

(***************************************************************************)
(* getNodeMatrix, statement by statement.  A node is [matrix, parent]; the *)
(* parent pointers are any graph, cycles and self-parents included.  The   *)
(* matrix of node i is the one-letter word << ToString(i) >>, so that the  *)
(* returned product spells the ancestors that were multiplied in.          *)
(***************************************************************************)
\* the nodes of a parent-pointer graph
MaxWalkNodes == 3

\* the local matrix of node i
WalkMatrix(i) == << ToString(i) >>

\* every parent-pointer graph on MaxWalkNodes nodes
WalkGraphs ==
    { [i \in 1..MaxWalkNodes |-> [matrix |-> WalkMatrix(i), parent |-> ps[i]]] :
        ps \in [1..MaxWalkNodes -> 0..MaxWalkNodes] }

\* a chain of len nodes: node 1 is the root, node i + 1 the child of node i
WalkChain(len) == [i \in 1..len |-> [matrix |-> WalkMatrix(i), parent |-> i - 1]]

\* the deepest node of a chain has 63, 64, 65 ancestors
WalkChainLengths == { MaxAncestors, MaxAncestors + 1, MaxAncestors + 2 }

\* auto m = node->matrix; auto parent = node->parent; std::uint8_t cnt = 0;
InitWalk(ns, n) ==
    /\ walkIn = [nodes |-> ns, node |-> n]
    /\ walk = [m |-> ns[n].matrix, parent |-> ns[n].parent, cnt |-> 0,
               at |-> "loop"]

\* no call of getNodeMatrix
WalkIdle ==
    /\ walkIn = [nodes |-> << >>, node |-> 0]
    /\ walk = [m |-> IdentityMat, parent |-> 0, cnt |-> 0, at |-> "idle"]

\* fault variant of the test of cnt: one ancestor too late
AncestorCapLate(cnt) == cnt > MaxAncestors + 1

\* if (++cnt > 64), on the incremented cnt
AncestorCapHit(cnt) == cnt > MaxAncestors

\* one iteration of the loop that multiplies an ancestor in
WalkAncestor ==
    /\ walk.at = "loop"
    /\ walk.parent # 0
    /\ LET cnt == (walk.cnt + 1) % 256
       IN  /\ ~AncestorCapHit(cnt)
           /\ walk' = [walk EXCEPT
                         !.cnt = cnt,
                         !.m = Mul(walkIn.nodes[walk.parent].matrix, walk.m),
                         !.parent = walkIn.nodes[walk.parent].parent]
    /\ UNCHANGED walkIn
    /\ UNCHANGED othersThanWalk

\* the iteration that breaks out of the loop, and return m
WalkBreak ==
    /\ walk.at = "loop"
    /\ walk.parent # 0
    /\ LET cnt == (walk.cnt + 1) % 256
       IN  /\ AncestorCapHit(cnt)
           /\ walk' = [walk EXCEPT !.cnt = cnt, !.at = "returned"]
    /\ UNCHANGED walkIn
    /\ UNCHANGED othersThanWalk

\* parent == nullptr ends the loop, and return m
WalkReturn ==
    /\ walk.at = "loop"
    /\ walk.parent = 0
    /\ walk' = [walk EXCEPT !.at = "returned"]
    /\ UNCHANGED walkIn
    /\ UNCHANGED othersThanWalk

WalkNext == WalkAncestor \/ WalkBreak \/ WalkReturn

(***************************************************************************)
(* loadGLTF on a parsed document.  A cgltf_node is [matrix, children,      *)
(* skin, parent]: the children list and the parent pointer are what the    *)
(* parser left, and nothing makes them agree or keeps the lists free of    *)
(* cycles.  A parent pointer is null or a node that lists the child.       *)
(***************************************************************************)
\* the nodes of a document
MaxDocNodes == 3
\* the entries of all its children lists together
MaxDocEdges == 3

\* the elements of the set S of numbers, ascending
RECURSIVE Ascending(_)
Ascending(S) ==
    IF S = {} THEN << >>
    ELSE LET least == CHOOSE x \in S : \A y \in S : x <= y
         IN  << least >> \o Ascending(S \ {least})

\* the children lists of a document of n nodes, as the pairs << node, child >>
DocEdgeSets(n) ==
    { F \in SUBSET ((1..n) \X (1..n)) : Cardinality(F) <= MaxDocEdges }

\* the parent pointers of the nodes 1..n: null, or a node that lists the child
RECURSIVE DocParents(_, _)
DocParents(E, n) ==
    IF n = 0 THEN { << >> }
    ELSE { Append(ps, p) :
             ps \in DocParents(E, n - 1),
             p \in {0} \cup { m \in 1..MaxDocNodes : << m, n >> \in E } }

\* data->scene: absent (<< 0 >>), or its root nodes
DocScenes == { << 0 >>, << 1 >>, << 1, 2 >> }

\* the document with the children lists E, the parent pointers ps and the
\* scene sc
Doc(E, ps, sc) ==
    [nodes |-> [n \in 1..MaxDocNodes |->
                  [matrix |-> WalkMatrix(n),
                   children |-> Ascending({ c \in 1..MaxDocNodes : << n, c >> \in E }),
                   skin |-> 0,
                   parent |-> ps[n]]],
     hasScene |-> sc # << 0 >>,
     roots |-> IF sc = << 0 >> THEN << >> ELSE sc,
     skins |-> << >>]

\* fault variant of CheckNodeHierarchy: child->parent is not compared
RECURSIVE CheckNodeHierarchyAnyParent(_, _, _)
CheckNodeHierarchyAnyParent(gl, node, parents) ==
    IF node \in parents THEN FALSE
    ELSE \A i \in 1..Len(gl.nodes[node].children) :
            CheckNodeHierarchyAnyParent(gl, gl.nodes[node].children[i],
                                        parents \cup {node})

\* CheckNodeHierarchy: parents is passed by value, so it holds the nodes on
\* the path from the root down to node
RECURSIVE CheckNodeHierarchy(_, _, _)
CheckNodeHierarchy(gl, node, parents) ==
    IF node \in parents THEN FALSE
    ELSE \A i \in 1..Len(gl.nodes[node].children) :
            LET child == gl.nodes[node].children[i]
            IN  /\ gl.nodes[child].parent = node
                /\ CheckNodeHierarchy(gl, child, parents \cup {node})

\* ValidateGLTF returns cgltf_result_success; validated is what the library's
\* cgltf_validate made of the document
ValidateGLTF(gl, validated) ==
    /\ validated
    /\ gl.hasScene
    /\ \A i \in 1..Len(gl.roots) : CheckNodeHierarchy(gl, gl.roots[i], {})

\* the nodes and the children of a scene that was not populated
EmptyScene == [nodes |-> << >>, children |-> << >>]

InitDoc(gl) ==
    /\ docIn = gl
    /\ docOut = [returned |-> "pending", scene |-> EmptyScene]

\* no call of loadGLTF
DocIdle ==
    InitDoc([nodes |-> << >>, hasScene |-> FALSE, roots |-> << >>,
             skins |-> << >>])

\* loadGLTF: ValidateGLTF fails, return false
LoadGLTFInvalid ==
    /\ docOut.returned = "pending"
    /\ \E validated \in BOOLEAN : ~ValidateGLTF(docIn, validated)
    /\ docOut' = [docOut EXCEPT !.returned = "false"]
    /\ UNCHANGED docIn
    /\ UNCHANGED othersThanDoc

\* loadGLTF: ValidateGLTF succeeds, LoadScene, return true
LoadGLTFLoaded ==
    /\ docOut.returned = "pending"
    /\ \E validated \in BOOLEAN, d \in DefaultMats :
          /\ ValidateGLTF(docIn, validated)
          /\ LET sc == LoadScene(docIn, d)
             IN  docOut' = [returned |-> "true",
                            scene |-> [nodes |-> sc.nodes, children |-> sc.roots]]
    /\ UNCHANGED docIn
    /\ UNCHANGED othersThanDoc

DocNext == LoadGLTFInvalid \/ LoadGLTFLoaded

(***************************************************************************)
(* The bounding box of one projected triangle.  glm::project divides by w  *)
(* and nothing clips the triangle, so a coordinate is any float: a number  *)
(* of half pixels, or a float above or below the range of int (the         *)
(* infinities included).  Converting such a float to int is undefined; the *)
(* builds give INT_MIN (cvttss2si) or the nearest int (fcvtzs).            *)
(***************************************************************************)
\* std::numeric_limits<int>::max() and min()
IntMax == 2147483647

IntMin == (-IntMax) - 1

\* the coordinates that stand for the floats above and below the range of
\* int; every other coordinate is a number of half pixels
Above == IntMax

Below == -IntMax

\* what a build makes of the conversion of a float outside the range of int
ConvertOutcomes == { "indefinite", "nearest" }

\* the implicit conversion of a float to int
FloatToInt(c, ub) ==
    IF c \in { Above, Below }
    THEN IF ub = "indefinite" THEN IntMin
         ELSE IF c = Above THEN IntMax ELSE IntMin
    ELSE ToInt(c)

\* isInTriangle on floats
isInTriangleOfFloats(tri, width, height, ub) ==
    \E i \in 1..3 : inBounds(FloatToInt(tri[i][1], ub), FloatToInt(tri[i][2], ub),
                             width, height)

\* bb on floats: the ints << left, bottom, right, top >> that the uvec4 is
\* made of
bbOfFloats(tri, width, height, ub) ==
    LET left   == FloatToInt(Min2(tri[1][1], Min2(tri[2][1], tri[3][1])), ub)
        right  == FloatToInt(Max2(tri[1][1], Max2(tri[2][1], tri[3][1])), ub)
        bottom == FloatToInt(Min2(tri[1][2], Min2(tri[2][2], tri[3][2])), ub)
        top    == FloatToInt(Max2(tri[1][2], Max2(tri[2][2], tri[3][2])), ub)
    IN  << Max2(left, 0), Max2(bottom, 0),
           Min2(right, width - 1), Min2(top, height - 1) >>

\* the vertices of the projected triangles
BoxVertices ==
    { << -3, 0 >>, << -1, -1 >>, << 0, 3 >>, << 3, 1 >>, << 40, 5 >>,
      << Above, 1 >>, << 1, Below >> }

InitBox(tri, width, height) ==
    /\ boxIn = [tri |-> tri, width |-> width, height |-> height]
    /\ boxOut = [pc |-> "draw", box |-> << 0, 0, 0, 0 >>]

\* no triangle
BoxIdle == InitBox(<< << 0, 0 >>, << 0, 0 >>, << 0, 0 >> >>, 0, 0)

\* draw(RenderOp *): no vertex is in the framebuffer, the triangle is skipped
DrawSkipped ==
    /\ boxOut.pc = "draw"
    /\ \E ub \in ConvertOutcomes :
          /\ ~isInTriangleOfFloats(boxIn.tri, boxIn.width, boxIn.height, ub)
          /\ boxOut' = [boxOut EXCEPT !.pc = "skipped"]
    /\ UNCHANGED boxIn
    /\ UNCHANGED othersThanBox

\* draw(RenderOp *): drawBB is called with the bounding box
DrawInBox ==
    /\ boxOut.pc = "draw"
    /\ \E ub \in ConvertOutcomes :
          /\ isInTriangleOfFloats(boxIn.tri, boxIn.width, boxIn.height, ub)
          /\ boxOut' = [pc |-> "drawBB",
                        box |-> bbOfFloats(boxIn.tri, boxIn.width, boxIn.height, ub)]
    /\ UNCHANGED boxIn
    /\ UNCHANGED othersThanBox

BoxNext == DrawSkipped \/ DrawInBox

(***************************************************************************)
(* Specifications                                                          *)
(***************************************************************************)
\* render of a scene
Init ==
    /\ RenderInit
    /\ ImageIdle
    /\ NodesIdle
    /\ MorphIdle
    /\ AccessIdle
    /\ SkinIdle
    /\ ColorIdle
    /\ WalkIdle
    /\ DocIdle
    /\ BoxIdle

Next == RenderNext

Spec == Init /\ [][Next]_vars

\* the Image interface
ImageInit ==
    /\ RenderIdle
    /\ AccessIdle
    /\ SkinIdle
    /\ ColorIdle
    /\ WalkIdle
    /\ DocIdle
    /\ BoxIdle
    /\ NodesIdle
    /\ MorphIdle
    /\ \E w, h \in 0..MaxImageDim, f \in Formats : InitImage(w, h, f)

ImageSpec == ImageInit /\ [][ImageNext]_vars

\* the caller of loadGLTF, update and render
NodeInit ==
    /\ RenderIdle
    /\ AccessIdle
    /\ SkinIdle
    /\ ColorIdle
    /\ WalkIdle
    /\ DocIdle
    /\ BoxIdle
    /\ ImageIdle
    /\ MorphIdle
    /\ \E gl \in GLTFs, d \in DefaultMats : InitNodes(gl, d)

NodeSpec == NodeInit /\ [][NodeNext]_vars

\* the morph steps of the vertex shader
MorphInit ==
    /\ RenderIdle
    /\ AccessIdle
    /\ SkinIdle
    /\ ColorIdle
    /\ WalkIdle
    /\ DocIdle
    /\ BoxIdle
    /\ ImageIdle
    /\ NodesIdle
    /\ \E ts \in SeqsUpTo(Targets, MaxTargets), m \in MorphLists, idx \in 1..NumVerts :
          InitMorph(ts, m, idx)

MorphSpec == MorphInit /\ [][MorphNext]_vars

\* render called with options it is to refuse
InvalidOptionInit ==
    /\ ImageIdle
    /\ NodesIdle
    /\ MorphIdle
    /\ AccessIdle
    /\ SkinIdle
    /\ ColorIdle
    /\ WalkIdle
    /\ DocIdle
    /\ BoxIdle
    /\ \E o \in InvalidOptionsSet, sc \in SeqsUpTo(SweepPrims, 1) : InitRender(o, sc)

InvalidOptionSpec == InvalidOptionInit /\ [][RenderNext]_vars

\* the skinning of the vertices of the ops of one pass
SkinInit ==
    /\ RenderIdle
    /\ ImageIdle
    /\ NodesIdle
    /\ MorphIdle
    /\ AccessIdle
    /\ ColorIdle
    /\ WalkIdle
    /\ DocIdle
    /\ BoxIdle
    /\ \E skinSet \in SkinSets :
          \E ops \in SeqsUpTo(SkinOps(skinSet), MaxSkinOps) : InitSkin(skinSet, ops)

SkinSpec == SkinInit /\ [][SkinNext]_vars

\* the Color additions on every pair of operands
ColorInit ==
    /\ RenderIdle
    /\ ImageIdle
    /\ NodesIdle
    /\ MorphIdle
    /\ AccessIdle
    /\ SkinIdle
    /\ WalkIdle
    /\ DocIdle
    /\ BoxIdle
    /\ \E left \in ColorOperands, right \in ColorOperands : InitColor(left, right)

ColorSpec == ColorInit /\ [][ColorNext]_vars

\* the memory accesses of the parallel loops of render
AccessInit ==
    /\ RenderIdle
    /\ ImageIdle
    /\ NodesIdle
    /\ MorphIdle
    /\ SkinIdle
    /\ ColorIdle
    /\ WalkIdle
    /\ DocIdle
    /\ BoxIdle
    /\ \E outline \in BOOLEAN, observer \in Observers,
          scene \in SeqsUpTo(QueuedPrims, MaxQueued) :
          InitAccess(outline, observer, scene)

AccessSpec == AccessInit /\ [][AccessNext]_vars

\* a call of getNodeMatrix on a node of a parent-pointer graph; the call is
\* one thread of control that runs on until it returns
WalkInit ==
    /\ RenderIdle
    /\ ImageIdle
    /\ NodesIdle
    /\ MorphIdle
    /\ AccessIdle
    /\ SkinIdle
    /\ ColorIdle
    /\ DocIdle
    /\ BoxIdle
    /\ \/ \E ns \in WalkGraphs, n \in 1..MaxWalkNodes : InitWalk(ns, n)
       \/ \E len \in WalkChainLengths : InitWalk(WalkChain(len), len)

WalkSpec == WalkInit /\ [][WalkNext]_vars /\ WF_vars(WalkNext)

\* a call of loadGLTF on a document
LoadInit ==
    /\ RenderIdle
    /\ ImageIdle
    /\ NodesIdle
    /\ MorphIdle
    /\ AccessIdle
    /\ SkinIdle
    /\ ColorIdle
    /\ WalkIdle
    /\ BoxIdle
    /\ \E E \in DocEdgeSets(MaxDocNodes) :
          \E ps \in DocParents(E, MaxDocNodes), sc \in DocScenes :
             InitDoc(Doc(E, ps, sc))

LoadSpec == LoadInit /\ [][DocNext]_vars

\* one projected triangle in draw(RenderOp *)
BoxInit ==
    /\ RenderIdle
    /\ ImageIdle
    /\ NodesIdle
    /\ MorphIdle
    /\ AccessIdle
    /\ SkinIdle
    /\ ColorIdle
    /\ WalkIdle
    /\ DocIdle
    /\ \E tri \in [1..3 -> BoxVertices], width, height \in 1..MaxDim :
          InitBox(tri, width, height)

BoxSpec == BoxInit /\ [][BoxNext]_vars

(***************************************************************************)
(* Properties of render                                                    *)
(***************************************************************************)
\* the bytes an image of the output format keeps of the color c
Stored(c) == SubSeq(c, 1, options.format)

\* pixel p of the rasterized framebuffer, as coordinates
PX(p) == p % RenderWidth

PY(p) == p \div RenderWidth

\* a material whose fragments DefaultShader::fragment never discards
NeverDiscarded(prim) ==
    /\ ~prim.material.isNull
    /\ prim.material.doubleSided
    /\ ~prim.material.hasTexture

\* the color DefaultShader::fragment gives the fragments of such a primitive
ColorOf(prim) == DefaultFragment(prim, EmptyImage, 0, 0, FALSE).color

\* the second parallel loop has finished pass i
PassDone(i) ==
    \/ pc = "raster" /\ task[i].at = "joined"
    \/ pc \in {"composite", "post", "ssaa", "done"}

\* no pass kept a fragment
NoFragmentKept ==
    \A i \in Passes : \A p \in DOMAIN shaders[i].zb : shaders[i].zb[p] = FltMin

\* what a pixel no pass painted holds when render returns with the vignette
\* off: the background, with the alpha byte 255 after the SSAA downscale
Unpainted ==
    IF options.ssaa
    THEN Stored([options.background EXCEPT ![4] = 255])
    ELSE Stored(options.background)

\* C1 (as stated): after the DefaultShader pass has rasterized two overlapping
\* opaque triangles whose fragments are never discarded, a pixel covered by
\* both holds the color of the one with the greater depth there, and a pixel
\* covered by one only holds that one's color
C1_DepthTest ==
    (/\ PassDone(1)
     /\ Len(prims) = 2
     /\ \A j \in 1..2 : /\ NeverDiscarded(prims[j])
                         /\ isInTriangle(prims[j].tri, RenderWidth, RenderHeight)
     /\ \E p \in Pixels(shaders[1].fb) :
            \A j \in 1..2 : Covers(prims[j].tri, PX(p), PY(p)))
    => \A p \in Pixels(shaders[1].fb) :
          LET c1 == Covers(prims[1].tri, PX(p), PY(p))
              c2 == Covers(prims[2].tri, PX(p), PY(p))
              d1 == FragDepth(prims[1].tri, prims[1].depths, PX(p), PY(p))
              d2 == FragDepth(prims[2].tri, prims[2].depths, PX(p), PY(p))
              px == PixelBytes(shaders[1].fb, p)
          IN  /\ (c1 /\ c2 /\ DepthLess(d1, d2)) => px = Stored(ColorOf(prims[2]))
              /\ (c1 /\ c2 /\ DepthLess(d2, d1)) => px = Stored(ColorOf(prims[1]))
              /\ (c1 /\ ~c2) => px = Stored(ColorOf(prims[1]))
              /\ (c2 /\ ~c1) => px = Stored(ColorOf(prims[2]))

\* C2 (as stated): with the vignette off, render of a scene in which no
\* fragment is kept returns an image whose every pixel equals the background
C2_EmptyIsBackground ==
    (pc = "done" /\ ~options.vignette /\ NoFragmentKept)
    => \A p \in Pixels(framebuffer) :
          PixelBytes(framebuffer, p) = Stored(options.background)

\* C2 (amended): with the vignette off, render of a scene in which no fragment
\* is kept returns an image whose every pixel equals the background, except
\* that with ssaa on the alpha byte of an RGBA pixel is 255
C2_EmptyIsBackgroundOpaqueUnderSSAA ==
    (pc = "done" /\ ~options.vignette /\ NoFragmentKept)
    => \A p \in Pixels(framebuffer) : PixelBytes(framebuffer, p) = Unpainted

C2_Witness ==
    /\ pc = "done" /\ ~options.vignette /\ NoFragmentKept
    /\ options.ssaa /\ options.ssaaKernelSize = 2 /\ options.format = RGBA
    /\ options.background[4] # 255
    /\ Len(prims) = 1

\* C3: when render returns, the output image has the width, the height and
\* the format of the options and a buffer of width * height * format bytes
C3_OutputShape ==
    pc = "done"
    => /\ framebuffer.width = options.width
       /\ framebuffer.height = options.height
       /\ framebuffer.format = options.format
       /\ Len(framebuffer.data) = options.width * options.height * options.format

C3_Witness ==
    /\ pc = "done"
    /\ options.ssaa /\ options.ssaaKernelSize = 2
    /\ options.width = 2 /\ options.height = 1
    /\ options.outline /\ options.vignette
    /\ Len(prims) = 1

\* the scene is one back-facing triangle with a single-sided material
OneCulledTriangle ==
    /\ Len(prims) = 1
    /\ ~prims[1].material.isNull
    /\ ~prims[1].material.doubleSided
    /\ backfacing(prims[1].tri)

\* C4 (as stated, for the options without vignette and ssaa): the render of
\* one back-facing triangle with a single-sided material is the background
\* in every pixel, whatever the outline option
C4_CulledIsBackground ==
    (pc = "done" /\ OneCulledTriangle /\ ~options.vignette /\ ~options.ssaa)
    => \A p \in Pixels(framebuffer) :
          PixelBytes(framebuffer, p) = Stored(options.background)

\* C4 (amended): with the outline and the vignette off, the DefaultShader pass
\* keeps no fragment of one back-facing triangle with a single-sided material
\* and the render is the background in every pixel (alpha byte 255 with ssaa)
C4_CulledIsBackgroundNoOutline ==
    (pc = "done" /\ OneCulledTriangle /\ ~options.vignette /\ ~options.outline)
    => /\ \A p \in DOMAIN shaders[1].zb : shaders[1].zb[p] = FltMin
       /\ \A p \in Pixels(framebuffer) : PixelBytes(framebuffer, p) = Unpainted

C4_Witness ==
    /\ pc = "done" /\ OneCulledTriangle /\ ~options.vignette /\ ~options.outline
    /\ options.format = RGBA /\ ~options.ssaa
    /\ \E p \in Pixels(framebuffer) : Covers(prims[1].tri, PX(p), PY(p))
    /\ isInTriangle(prims[1].tri, RenderWidth, RenderHeight)

\* the fragments of prim sample a texel whose alpha is below the cutoff of
\* its Mask material
MaskedBelow(prim) ==
    /\ ~prim.material.isNull
    /\ prim.material.alphaMode = "Mask"
    /\ prim.material.hasTexture /\ prim.material.texHasAlpha
    /\ prim.material.texel[4] < prim.material.alphaCutOff

\* pixel p of the rasterized framebuffer is covered, and only by such fragments
CoveredOnlyByMasked(p) ==
    /\ \E j \in 1..Len(prims) : Covers(prims[j].tri, PX(p), PY(p))
    /\ \A j \in 1..Len(prims) :
          Covers(prims[j].tri, PX(p), PY(p)) => MaskedBelow(prims[j])

\* in the DefaultShader pass neither the framebuffer pixel nor the z-buffer
\* entry of such a pixel is ever written
MaskedNeverWritten ==
    \A p \in DOMAIN shaders[1].zb :
       CoveredOnlyByMasked(p)
       => /\ shaders[1].zb[p] = FltMin
          /\ PixelBytes(shaders[1].fb, p) = Stored(<< 0, 0, 0, 0 >>)

\* the pixels of the rasterized framebuffer that output pixel q is made of
Block(q) ==
    LET k == IF options.ssaa THEN options.ssaaKernelSize ELSE 1
    IN  { ((q % options.width) * k + i)
             + ((q \div options.width) * k + j) * RenderWidth :
          i \in 0..(k - 1), j \in 0..(k - 1) }

\* C5 (as stated): the fragments below the cutoff of a Mask material with an
\* alpha texture write neither the pass framebuffer nor the pass z-buffer, and
\* an output pixel made only of pixels that are covered only by such fragments
\* equals the background
C5_MaskedIsBackground ==
    /\ MaskedNeverWritten
    /\ pc = "done"
       => \A q \in Pixels(framebuffer) :
             (\A p \in Block(q) : CoveredOnlyByMasked(p))
             => PixelBytes(framebuffer, q) = Stored(options.background)

\* C5 (amended): the fragments below the cutoff of a Mask material with an
\* alpha texture write neither the pass framebuffer nor the pass z-buffer, and
\* with the vignette off an output pixel made only of pixels that are covered
\* only by such fragments and that the outline pass did not paint equals the
\* background (alpha byte 255 with ssaa)
C5_MaskedIsBackgroundUnlessOutlined ==
    /\ MaskedNeverWritten
    /\ (pc = "done" /\ ~options.vignette)
       => \A q \in Pixels(framebuffer) :
             (\A p \in Block(q) :
                 /\ CoveredOnlyByMasked(p)
                 /\ options.outline => shaders[2].zb[p] = FltMin)
             => PixelBytes(framebuffer, q) = Unpainted

C5_Witness ==
    /\ pc = "done" /\ ~options.vignette
    /\ Len(prims) = 2
    /\ \E q \in Pixels(framebuffer) : \A p \in Block(q) : CoveredOnlyByMasked(p)
    /\ \E q \in Pixels(framebuffer) : PixelBytes(framebuffer, q) = Stored(Yellow)

\* the ops of a pass in the order the second loop draws them: the queues in
\* ascending key order, each in the order its sort left it
RECURSIVE OpsFrom(_, _)
OpsFrom(rq, keys) ==
    IF keys = {} THEN << >>
    ELSE LET k == CHOOSE q \in keys : \A r \in keys : q <= r
         IN  rq[k] \o OpsFrom(rq, keys \ {k})

DrawOrder(i) == OpsFrom(renderQueues[i], DOMAIN renderQueues[i])

\* the shader after draw of ops[j], ops[j + 1], ... in this order
RECURSIVE DrawnFrom(_, _, _)
DrawnFrom(sh, ops, j) ==
    IF j > Len(ops) THEN sh
    ELSE DrawnFrom(draw(sh, prims[ops[j]]), ops, j + 1)

\* the buffers of a pass before its first draw
FreshShader(kind) ==
    [NewShader(kind) EXCEPT
        !.zb = [p \in 0..(RenderWidth * RenderHeight - 1) |-> FltMin],
        !.fb = ImageReset(RenderWidth, RenderHeight, options.format)]

\* pass i run alone, from new buffers, over the ops in the given order
PassAlone(i, ops) ==
    DrawnFrom(FreshShader(IF i = 1 THEN "default" ELSE "outline"), ops, 1)

\* the compositor of render on a new Image, from the passes shs
ComposedOf(shs) ==
    LET fb0 == ImageReset(RenderWidth, RenderHeight, options.format)
    IN  WithPixels(fb0,
           [i \in Pixels(fb0) |->
               CompositeFrom(shs, NumPasses, 1,
                  [bytes |-> PixelBytes(fb0, i), depth |-> FltMin], i).bytes])

\* the post-processing of render, with the outcome ub of the conversions
\* generateVignette leaves undefined
PostOf(composed, ub) ==
    IF options.vignette
    THEN generateVignette(composed, options.background, ub)
    ELSE ImageFill(composed, options.background)

\* the last step of render
ReturnedOf(post) ==
    IF options.ssaa THEN Downscaled(post, options) ELSE post

\* the images render can return when the passes run one after the other on a
\* new Image, each over the given ops
SequentialOutputs(ops1, ops2) ==
    { ReturnedOf(post) :
        post \in { PostOf(composed, ub) :
                     ub \in UBOutcomes,
                     composed \in { ComposedOf(shs) :
                        shs \in { << PassAlone(1, ops1), PassAlone(2, ops2) >> } } } }

C12_InvalidOptionAborts ==
    InvalidOption(options) => pc \in {"start", "failed"}

(***************************************************************************)
(* Properties of Image                                                     *)
(***************************************************************************)
\* the alpha of pixel p of image i, as Image::get reads it
AlphaAt(i, p) == ImageGet(i, p % i.width, p \div i.width)[4]

\* the formats whose pixels carry an alpha byte
AlphaFormats == {GRAYSCALE_ALPHA, RGBA}

\* C9 (as stated, for the formats that carry an alpha byte): Image::fill(color)
\* overwrites exactly the pixels whose alpha is zero and leaves every other
\* pixel byte for byte as it was
C9_FillOnlyTransparent ==
    (imgOp.name = "fill" /\ img.format \in AlphaFormats)
    => \A p \in Pixels(before) :
          PixelBytes(img, p) =
             IF AlphaAt(before, p) = 0
             THEN SubSeq(imgOp.color, 1, img.format)
             ELSE PixelBytes(before, p)

(***************************************************************************)
(* Properties of the scene-transform updater                               *)
(***************************************************************************)
\* the product of the local matrices along the parent chain, from the root
\* down to and including node n
RECURSIVE World(_)
World(n) ==
    IF nodes[n].parent = 0 THEN nodes[n].matrix
    ELSE Mul(World(nodes[n].parent), nodes[n].matrix)

\* the number of ancestors of node n
RECURSIVE NumAncestors(_)
NumAncestors(n) ==
    IF nodes[n].parent = 0 THEN 0 ELSE 1 + NumAncestors(nodes[n].parent)

\* the nodes under the list of nodes `list`, through the children lists
RECURSIVE Under(_)
Under(list) ==
    UNION { {list[j]} \cup Under(nodes[list[j]].children) : j \in 1..Len(list) }

\* the nodes the traversals of the scene reach
Reachable == Under(roots)

BindConsistent(n) == nodes[n].bindMatrix = World(n)

JointsConsistent(k) ==
    \A i \in 1..Len(skins[k].joints) :
       skins[k].jointMatrices[i] =
          Mul(World(skins[k].joints[i]), skins[k].inverseBindMatrices[i])

\* C7 (as stated): when render begins its first pass, after any sequence of
\* edits of local matrices and update(scene) calls, the bindMatrix of every
\* node of the scene graph and the jointMatrices of every skin such a node
\* refers to are the values derived from the current local matrices
C7_RenderUpdates ==
    nodeOp = "render"
    => \A n \in Reachable :
          /\ BindConsistent(n)
          /\ nodes[n].skin # 0 => JointsConsistent(nodes[n].skin)

\* C8 (as stated): after update(scene) returns, every node the scene holds
\* has its bindMatrix equal to the chain product, and every skin the scene
\* holds has jointMatrices[i] = world(joints[i]) * inverseBindMatrices[i]
C8_UpdateAllHeld ==
    nodeOp = "update"
    => /\ \A n \in DOMAIN nodes : BindConsistent(n)
       /\ \A k \in DOMAIN skins : JointsConsistent(k)

\* C8 (amended): after update(scene) returns, every node reachable from the
\* scene's roots through the children lists, with at most 64 ancestors, has
\* its bindMatrix equal to the chain product, and the skin of every such
\* node has jointMatrices[i] = world(joints[i]) * inverseBindMatrices[i] for
\* its joints with at most 64 ancestors
C8_UpdateReachable ==
    nodeOp = "update"
    => \A n \in Reachable :
          /\ NumAncestors(n) <= MaxAncestors => BindConsistent(n)
          /\ (/\ nodes[n].skin # 0
              /\ \A i \in 1..Len(skins[nodes[n].skin].joints) :
                    NumAncestors(skins[nodes[n].skin].joints[i]) <= MaxAncestors)
             => JointsConsistent(nodes[n].skin)

C8_Witness ==
    /\ nodeOp = "update"
    /\ edits = MaxEdits
    /\ \E n \in Reachable :
          /\ nodes[n].parent # 0
          /\ nodes[n].skin # 0
          /\ nodes[nodes[n].parent].matrix \notin {IdentityMat, << "A" >>, << "B" >>}
          /\ nodes[n].bindMatrix # nodes[n].matrix

(***************************************************************************)
(* Properties of the morph functions                                       *)
(***************************************************************************)
\* the displacement of vertex idx in a target's array, zero when the target
\* does not carry the array
Displacement(array, idx) == IF Len(array) = 0 THEN 0 ELSE array[idx]

\* attr + the sum over the targets i of target_i.attr * morphs[i].weight
RECURSIVE Accumulated(_, _, _)
Accumulated(arrays, i, attr) ==
    IF i > Len(arrays) THEN attr
    ELSE Accumulated(arrays, i + 1,
            attr + Displacement(arrays[i], morphIn.idx) * morphIn.morphs.weights[i])

\* what the claim makes of attr: the accumulated value when the morph list
\* is present with at least numTargets entries, attr itself otherwise
Morphed(arrays, attr) ==
    IF morphIn.morphs.present /\ Len(morphIn.morphs.weights) >= Len(morphIn.targets)
    THEN Returned(Accumulated(arrays, 1, attr))
    ELSE Returned(attr)

\* C6 (as stated): morphVert, morphNormal and morphTangent return attr + the
\* sum over the targets of target_i.attr * morphs[i].weight when the morph
\* list is present and has at least numTargets entries and attr otherwise, so
\* that with every weight 0 each attribute is the one without morph targets
C6_MorphAccumulates ==
    LET ts == morphIn.targets
    IN  /\ morphPc \in {"normal", "tangent", "done", "crashed"}
           => morphOut.vert =
                 Morphed([i \in 1..Len(ts) |-> ts[i].vertices], morphIn.vert)
        /\ morphPc \in {"tangent", "done"}
           => morphOut.normal =
                 Morphed([i \in 1..Len(ts) |-> ts[i].normals], morphIn.normal)
        /\ morphPc = "done"
           => morphOut.tangent =
                 Morphed([i \in 1..Len(ts) |-> ts[i].tangents], morphIn.tangent)

\* the displacement array of a target that a morph function reads
ArrayOf(which, target) ==
    CASE which = "vert" -> target.vertices
      [] which = "normal" -> target.normals
      [] which = "tangent" -> target.tangents

\* C30: a morph function that runs its loop indexes the array of a target
\* only when the target carries it, and takes zero for a target that does
\* not: every read has one outcome, the displacement in the array or zero,
\* and none is a read outside an array.
C30_ReadsInsideArrays ==
    [][\A which \in {"vert", "normal", "tangent"} :
          (/\ morphPc = which
           /\ morphPc' # which
           /\ ~MorphSkipped(morphIn.targets, morphIn.morphs))
          => \A i \in 1..Len(morphIn.targets) :
                AtTarget(which, morphIn.targets, morphIn.idx, i)
                = { Returned(Displacement(ArrayOf(which, morphIn.targets[i]),
                                          morphIn.idx)) }]_vars

\* the primitive of the op pass i draws next
NextPrim(i) == prims[Head(task[i].ops)]

\* pass i draws its next op in this step
Draws(i) ==
    /\ pc = "raster"
    /\ task[i].at = "draw"
    /\ task'[i].ops = Tail(task[i].ops)

\* this step changes z-buffer entry p or framebuffer pixel p of pass i
PixelChanges(i, p) ==
    \/ shaders'[i].zb[p] # shaders[i].zb[p]
    \/ PixelBytes(shaders'[i].fb, p) # PixelBytes(shaders[i].fb, p)

\* the fragment of the next op of pass i at pixel p covers p, is strictly
\* deeper than z-buffer entry p, and is not discarded by the shader
Accepted(i, p) ==
    /\ Covers(NextPrim(i).tri, PX(p), PY(p))
    /\ DepthLess(shaders[i].zb[p],
                 FragDepth(NextPrim(i).tri, NextPrim(i).depths, PX(p), PY(p)))
    /\ ~Fragment(shaders[i], NextPrim(i), PX(p), PY(p)).discarded

\* C16: while the passes rasterize, a step changes z-buffer entry p or pixel
\* p of a pass only when that pass draws an op whose fragment at p covers p,
\* is strictly deeper than the entry and is not discarded; the step then
\* writes the fragment's depth and color together, and no step makes a
\* z-buffer entry smaller
C16_WrittenTogether ==
    [][pc = "raster" =>
         \A i \in Passes : \A p \in Pixels(shaders[i].fb) :
            /\ PixelChanges(i, p) =>
                  /\ Draws(i)
                  /\ Accepted(i, p)
                  /\ shaders'[i].zb[p] =
                        FragDepth(NextPrim(i).tri, NextPrim(i).depths, PX(p), PY(p))
                  /\ PixelBytes(shaders'[i].fb, p) =
                        Stored(Fragment(shaders[i], NextPrim(i), PX(p), PY(p)).color)
            /\ ~DepthLess(shaders'[i].zb[p], shaders[i].zb[p])]_vars

\* the default pass has drawn two triangles that cover one pixel at different
\* depths, and the entry holds the greater one
C16_Witness ==
    /\ pc = "raster" /\ task[1].at = "joined"
    /\ Len(prims) = 2
    /\ \E p \in Pixels(shaders[1].fb) :
          LET d1 == FragDepth(prims[1].tri, prims[1].depths, PX(p), PY(p))
              d2 == FragDepth(prims[2].tri, prims[2].depths, PX(p), PY(p))
          IN  /\ \A j \in 1..2 : Covers(prims[j].tri, PX(p), PY(p))
              /\ DepthLess(d1, d2)
              /\ shaders[1].zb[p] = d2
              /\ PixelBytes(shaders[1].fb, p) # << 0, 0, 0, 0 >>

\* the depths of the fragments of the scene's triangles at the pixels they
\* cover
SceneDepths ==
    { FragDepth(prims[j].tri, prims[j].depths, PX(p), PY(p)) :
        << j, p >> \in { jp \in (1..Len(prims)) \X Pixels(shaders[1].fb) :
                          Covers(prims[jp[1]].tri, PX(jp[2]), PY(jp[2])) } }

\* C17 (as stated): the value the z-buffers of the passes and of the
\* compositor start with is not greater than any depth, and once the default
\* pass has rasterized a scene of one triangle whose fragments are never
\* discarded, every pixel the triangle covers holds its fragment, whatever
\* the depth
C17_FirstFragmentAccepted ==
    /\ pc = "raster" =>
          /\ \A d \in SceneDepths : ~DepthLess(d, FltMin)
          /\ \A p \in DOMAIN zbuffer : zbuffer[p] = FltMin
    /\ (/\ PassDone(1)
        /\ Len(prims) = 1
        /\ NeverDiscarded(prims[1])
        /\ isInTriangle(prims[1].tri, RenderWidth, RenderHeight))
       => \A p \in Pixels(shaders[1].fb) :
             Covers(prims[1].tri, PX(p), PY(p))
             => shaders[1].zb[p] =
                   FragDepth(prims[1].tri, prims[1].depths, PX(p), PY(p))

\* the orders in which the ops of the scene can be drawn
DrawOrders ==
    { o \in [1..Len(prims) -> 1..Len(prims)] :
        \A a, b \in 1..Len(prims) : a # b => o[a] # o[b] }

\* the triangles of the scene are opaque and their fragments never discarded
OpaqueScene ==
    \A j \in 1..Len(prims) :
        /\ NeverDiscarded(prims[j])
        /\ prims[j].material.baseColor[4] = 255

\* C18 (as stated): when the default pass has rasterized a scene of opaque
\* triangles whose fragments are never discarded, its framebuffer and its
\* z-buffer are the ones every order of the draws leaves, equal depths at a
\* pixel included
C18_OrderIndependent ==
    (PassDone(1) /\ OpaqueScene)
    => \A sh \in { PassAlone(1, o) : o \in DrawOrders } :
          /\ sh.fb = shaders[1].fb
          /\ sh.zb = shaders[1].zb

\* the queues of pass i the second loop has sorted
SortedKeys(i) ==
    IF pc = "raster" /\ task[i].at \in {"next", "draw", "joined"}
    THEN (DOMAIN renderQueues[i]) \ task[i].keys
    ELSE {}

\* C20 (as stated): a queue the second loop has sorted holds its ops by
\* ascending center.z, and two ops of equal center.z in the order the
\* traversal queued them (the order of their indices in the scene)
C20_StableSorted ==
    \A i \in Passes : \A k \in SortedKeys(i) :
        LET q == renderQueues[i][k]
        IN  \A a, b \in 1..Len(q) :
               a < b =>
                 /\ prims[q[a]].centerZ <= prims[q[b]].centerZ
                 /\ prims[q[a]].centerZ = prims[q[b]].centerZ => q[a] < q[b]

\* pass * alpha + current * (1 - alpha) on the four channels, alpha the
\* alpha byte of the pass over 255, each product truncated and the sum
\* saturating
OverBlend(pass, current) ==
    [c \in 1..4 |->
        Min2(255, (pass[c] * pass[4]) \div 255
                  + (current[c] * (255 - pass[4])) \div 255)]

\* the fold of C21 at pixel p over the passes k, k + 1, ..., from acc
RECURSIVE FoldPasses(_, _, _)
FoldPasses(k, acc, p) ==
    IF k > NumPasses THEN acc
    ELSE LET src   == PixelBytes(shaders[k].fb, p)
             depth == shaders[k].zb[p]
         IN  FoldPasses(k + 1,
                IF ~DepthLess(acc.depth, depth) THEN acc
                ELSE IF options.format = RGBA /\ src[4] # 255
                THEN [depth |-> depth, bytes |-> OverBlend(src, acc.bytes)]
                ELSE [depth |-> depth, bytes |-> src],
                p)

\* C21: when the compositor has run, every pixel of the output and every
\* entry of the accumulated z-buffer are the left fold over the passes in
\* insertion order, from a transparent pixel and the initial depth: a pass
\* strictly deeper than the accumulated depth sets the depth and replaces
\* the pixel, or blends into it when the format is RGBA and its alpha is not
\* 255; a pass that is not deeper changes nothing
C21_CompositorFold ==
    pc = "post" =>
       \A p \in Pixels(framebuffer) :
          [depth |-> zbuffer[p], bytes |-> PixelBytes(framebuffer, p)]
          = FoldPasses(1, [depth |-> FltMin, bytes |-> Stored(<< 0, 0, 0, 0 >>)], p)

\* the compositor has run on two passes of an RGBA image, and at one pixel
\* only the outline pass is painted, translucent, and is blended
C21_Witness ==
    /\ pc = "post" /\ options.outline /\ options.format = RGBA
    /\ \E p \in Pixels(framebuffer) :
          /\ shaders[1].zb[p] = FltMin
          /\ shaders[2].zb[p] # FltMin
          /\ PixelBytes(shaders[2].fb, p)[4] \notin {0, 255}
          /\ PixelBytes(framebuffer, p) # PixelBytes(shaders[2].fb, p)

\* the outline color the material of a primitive asks for: its VRM0 outline
\* color, or the default of the OutlineShader
OwnOutlineColor(prim) ==
    IF ~prim.material.isNull /\ prim.material.hasVrm0 /\ prim.material.hasOutlineColor
    THEN prim.material.outlineColor
    ELSE << 0, 0, 0, 178 >>

\* C23 (as stated): every pixel the outline pass paints when it draws a
\* primitive gets the outline color of that primitive's own material, the
\* default (0, 0, 0, 178) when the material carries none, whatever the pass
\* drew before
C23_OutlineOfOwnMaterial ==
    [][(pc = "raster" /\ 2 \in Passes /\ Draws(2)) =>
         \A p \in Pixels(shaders[2].fb) :
            shaders'[2].zb[p] # shaders[2].zb[p]
            => PixelBytes(shaders'[2].fb, p) = Stored(OwnOutlineColor(NextPrim(2)))]_vars

\* C24 (as stated): when the default pass draws a primitive that has no
\* material and no vertex colors, its framebuffer and its z-buffer stay as
\* they are
C24_BarePrimitiveSkipped ==
    [][(/\ pc = "raster"
        /\ Draws(1)
        /\ NextPrim(1).material.isNull
        /\ ~NextPrim(1).hasColor)
       => /\ shaders'[1].fb = shaders[1].fb
          /\ shaders'[1].zb = shaders[1].zb]_vars

\* the sum of byte c of the pixels ps of the image src
RECURSIVE ChannelSum(_, _, _)
ChannelSum(src, ps, c) ==
    IF ps = {} THEN 0
    ELSE LET p == CHOOSE q \in ps : TRUE
         IN  PixelBytes(src, p)[c] + ChannelSum(src, ps \ {p}, c)

\* C25: the SSAA step with kernel size k replaces the framebuffer by one of
\* width / k by height / k in which R, G and B of every pixel are the floor
\* of the mean of the channel over its k x k block of the source, and the
\* alpha byte is 255
C25_DownscaleIsBoxMean ==
    [][(pc = "ssaa" /\ pc' = "done") =>
         LET k == options.ssaaKernelSize
         IN  /\ framebuffer'.width = framebuffer.width \div k
             /\ framebuffer'.height = framebuffer.height \div k
             /\ framebuffer'.format = framebuffer.format
             /\ \A q \in Pixels(framebuffer') :
                   /\ \A c \in 1..3 :
                         PixelBytes(framebuffer', q)[c] =
                            ChannelSum(framebuffer, Block(q), c) \div (k * k)
                   /\ framebuffer.format = RGBA
                         => PixelBytes(framebuffer', q)[4] = 255]_vars

\* render has returned a 2 x 2 image downscaled with kernel size 2 from a
\* vignette, and two of its pixels differ
C25_Witness ==
    /\ pc = "done" /\ options.ssaa /\ options.ssaaKernelSize = 2
    /\ options.vignette /\ options.width = 2 /\ options.height = 2
    /\ \E p, q \in Pixels(framebuffer) :
          PixelBytes(framebuffer, p) # PixelBytes(framebuffer, q)

\* the background attenuated by the vignette at pixel p, as the bytes of the
\* output format, for each outcome of the conversion of a negative product
Attenuated(p) ==
    { Stored(<< VignetteByte(options.background[1], PX(p), PY(p),
                             RenderWidth, RenderHeight, ub),
                VignetteByte(options.background[2], PX(p), PY(p),
                             RenderWidth, RenderHeight, ub),
                VignetteByte(options.background[3], PX(p), PY(p),
                             RenderWidth, RenderHeight, ub),
                255 >>) : ub \in UBOutcomes }

\* C26 (as stated): with the vignette on, whatever the format, the vignette
\* step gives every pixel no pass painted the attenuated background and
\* leaves every pixel a pass painted as it is
C26_VignetteOnUnpainted ==
    [][(pc = "post" /\ pc' # "post" /\ options.vignette) =>
         \A p \in Pixels(framebuffer) :
            IF zbuffer[p] = FltMin
            THEN PixelBytes(framebuffer', p) \in Attenuated(p)
            ELSE PixelBytes(framebuffer', p) = PixelBytes(framebuffer, p)]_vars

(***************************************************************************)
(* Properties of getNodeMatrix                                             *)
(***************************************************************************)
\* the k-th ancestor of node n, 0 past the root
RECURSIVE AncestorAt(_, _, _)
AncestorAt(ns, n, k) ==
    IF k = 0 \/ n = 0 THEN n ELSE AncestorAt(ns, ns[n].parent, k - 1)

\* node n has a root above it, d ancestors up
RootedAt(ns, n, d) == AncestorAt(ns, n, d) # 0 /\ AncestorAt(ns, n, d + 1) = 0

\* the local matrices from the root down to node n, which has d ancestors
ChainProduct(ns, n, d) ==
    [i \in 1..(d + 1) |-> ns[AncestorAt(ns, n, d + 1 - i)].matrix[1]]

\* what getNodeMatrix returns
WalkResult ==
    /\ Len(walk.m) - 1 <= MaxAncestors
    /\ \A d \in 0..MaxAncestors :
          RootedAt(walkIn.nodes, walkIn.node, d)
          => walk.m = ChainProduct(walkIn.nodes, walkIn.node, d)

\* C27: getNodeMatrix returns on every parent-pointer graph, cycles
\* included, with at most 64 ancestors multiplied in; for a node that has at
\* most 64 ancestors the result is the product of the local matrices of all
\* of them, from the root down to the node.
C27_WalkTerminates ==
    /\ <>(walk.at = "returned")
    /\ [](walk.at = "returned" => WalkResult)

\* the call returned from a cycle, with 64 ancestors multiplied in
C27_Witness ==
    /\ walk.at = "returned"
    /\ walk.parent # 0
    /\ Len(walkIn.nodes) = MaxWalkNodes
    /\ Len(walk.m) = MaxAncestors + 1

(***************************************************************************)
(* Properties of loadGLTF                                                  *)
(***************************************************************************)
\* the nodes of the list
ListedIn(list) == { list[i] : i \in 1..Len(list) }

\* the nodes of S and the nodes at most k children lists below them
RECURSIVE DownFrom(_, _, _)
DownFrom(ns, S, k) ==
    IF k = 0 THEN S
    ELSE DownFrom(ns, S \cup UNION { ListedIn(ns[n].children) : n \in S }, k - 1)

\* the nodes below node n, through the children lists
Descendants(ns, n) == DownFrom(ns, ListedIn(ns[n].children), Len(ns))

\* the nodes the traversals from the list of roots reach
InScene(ns, list) == DownFrom(ns, ListedIn(list), Len(ns))

\* the scene of the document has a node that is its own ancestor
OwnAncestor ==
    \E n \in InScene(docIn.nodes, docIn.roots) : n \in Descendants(docIn.nodes, n)

\* the scene of the document has a child whose parent pointer is another node
ForeignChild ==
    \E n \in InScene(docIn.nodes, docIn.roots) :
       \E c \in ListedIn(docIn.nodes[n].children) : docIn.nodes[c].parent # n

\* C28: when loadGLTF returns true, no node that the children lists reach
\* from the roots of the scene is below itself, so that the recursive
\* traversals end; when the scene of the document has a node that is its own
\* ancestor, or a child whose parent pointer is another node, loadGLTF
\* returns false, and a scene is left unpopulated whenever it returns false.
C28_AcceptedIsAcyclic ==
    /\ docOut.returned = "true"
       => \A n \in InScene(docOut.scene.nodes, docOut.scene.children) :
             n \notin Descendants(docOut.scene.nodes, n)
    /\ docOut.returned = "false" => docOut.scene = EmptyScene
    /\ (docOut.returned # "pending" /\ (OwnAncestor \/ ForeignChild))
       => docOut.returned = "false"

\* loadGLTF turned down a document whose parent pointers all agree with the
\* children lists, for a node that is its own ancestor
C28_Witness ==
    /\ docOut.returned = "false"
    /\ docIn.hasScene
    /\ OwnAncestor
    /\ ~ForeignChild

(***************************************************************************)
(* Properties of the bounding box                                          *)
(***************************************************************************)
\* C29: whenever drawBB is called, its box has 0 <= left <= right <=
\* width - 1 and 0 <= bottom <= top <= height - 1, so that the loops of
\* drawBB end and visit pixels of the framebuffer only.
C29_BoxInsideFramebuffer ==
    boxOut.pc = "drawBB"
    => /\ 0 <= boxOut.box[1]
       /\ boxOut.box[1] <= boxOut.box[3]
       /\ boxOut.box[3] <= boxIn.width - 1
       /\ 0 <= boxOut.box[2]
       /\ boxOut.box[2] <= boxOut.box[4]
       /\ boxOut.box[4] <= boxIn.height - 1

(***************************************************************************)
(* Properties of Image::get                                                *)
(***************************************************************************)
\* the last call was get(x, y) on an empty buffer or with x, y outside it
GetOutside ==
    /\ imgOp.name = "get"
    /\ \/ Len(before.data) = 0
       \/ imgOp.x >= before.width
       \/ imgOp.y >= before.height

\* C15 (as stated): Image::get on an empty buffer or outside the image
\* returns the color whose four channels are 0
C15_GetOutsideIsZero == GetOutside => got = << 0, 0, 0, 0 >>

\* op n has been drawn: its vertex has been through Shader::skinning
SkinDrawn(n) ==
    \/ n < skinPc.op
    \/ n = skinPc.op /\ skinPc.at \in {"done", "crashed"}

\* the joint indices of op n are below the number of joints of its own skin
OwnJointsInRange(n) ==
    LET op == skinIn.ops[n]
    IN  (op.hasJoints /\ op.skin # 0)
        => \A c \in 1..4 : op.joint[c] < skinIn.skins[op.skin]

\* the matrix of the node of op n: the weighted sum over the jointMatrices of
\* its skin, or its own bindMatrix
OwnSkinMatrix(n) ==
    LET op == skinIn.ops[n]
    IN  IF op.hasJoints /\ op.skin # 0
        THEN op.weight[1] * JointMatrix(op.skin, op.joint[1])
             + op.weight[2] * JointMatrix(op.skin, op.joint[2])
             + op.weight[3] * JointMatrix(op.skin, op.joint[3])
             + op.weight[4] * JointMatrix(op.skin, op.joint[4])
        ELSE BindMatrix(n)

\* C22 (as stated): for every op drawn, whatever was drawn before it,
\* Shader::skinning reads no null pointer and returns the matrix of the node
\* of the op: the weighted sum over its skin's jointMatrices when the
\* primitive has joints and the node a skin, its own bindMatrix otherwise
C22_SkinningOfOwnNode ==
    \A n \in 1..Len(skinIn.ops) :
        (SkinDrawn(n) /\ OwnJointsInRange(n))
        => /\ ~skinOut[n].crash
           /\ skinOut[n].v = OwnSkinMatrix(n)

(***************************************************************************)
(* Properties of Color                                                     *)
(***************************************************************************)
\* min(255, left channel + right channel), per channel
Saturated(left, right) == [i \in 1..4 |-> Min2(255, left[i] + right[i])]

\* C14 (as stated): Color + Color and Color + vec4 both give, in every
\* channel, min(255, left channel + right channel)
C14_AdditionsSaturate ==
    /\ colorPc \in {"vec4", "done"}
          => colorOut.sum = Saturated(colorIn.left, colorIn.right)
    /\ colorPc = "done"
          => colorOut.sumVec4 = Saturated(colorIn.left, colorIn.right)

(***************************************************************************)
(* Properties of skinning                                                  *)
(***************************************************************************)
\* the op carries a joint index that is not below the number of joints of
\* the skin of its node
JointOutOfRange(op) ==
    /\ op.skin # 0
    /\ op.hasJoints
    /\ \E c \in 1..4 : op.joint[c] >= skinIn.skins[op.skin]

\* C13 (as stated): an op whose vertex carries a joint index that is not
\* below the number of joints of its node's skin is refused before its
\* vertices are processed, and Shader::skinning never reads jointMatrices at
\* an index outside [0, number of joints)
C13_JointIndexChecked ==
    /\ \A n \in 1..Len(skinIn.ops) : ~skinOut[n].outside
    /\ (skinPc.at = "vertex" => ~JointOutOfRange(skinIn.ops[skinPc.op]))

(***************************************************************************)
(* Properties of the parallel loops                                        *)
(***************************************************************************)
\* the ops pass i has not drawn yet: the rest of the queue it is drawing and
\* the queues it has not started
Undrawn(i) ==
    IF accTask[i].at \in {"next", "draw"}
    THEN { accTask[i].ops[n] : n \in 1..Len(accTask[i].ops) }
         \cup UNION { { accQueues[i][k][n] : n \in 1..Len(accQueues[i][k]) } :
                        k \in accTask[i].keys }
    ELSE {}

\* the key the specification gives primitive j of the scene
KeyOf(j) ==
    LET m == accIn.scene[j].material
    IN  IF m.isNull \/ ~m.hasVrm0 THEN 0 ELSE m.renderQueue

\* the places of op j in the queues of pass i
PlacesOf(i, j) ==
    { kn \in UNION { {k} \X (1..Len(accQueues[i][k])) : k \in DOMAIN accQueues[i] } :
         accQueues[i][kn[1]][kn[2]] = j }

C10_NoSharedWrites ==
    \A a, b \in accesses :
       (a.task # b.task /\ a.loc = b.loc) => (~a.write /\ ~b.write)

=============================================================================
